---- MODULE Spec2Model ----
(***************************************************************************)
(* The JSON codec that generator/rust.stoneg.py emits for Stone structs,   *)
(* unions and structs with enumerated subtypes, run the way the tests      *)
(* emitted by generator/test.stoneg.py run it:                             *)
(*     json --from_str--> x --to_string--> json2 --from_str--> x2          *)
(* The emitted Rust is modelled by what it does on a serde MapAccess (a    *)
(* sequence of key/value entries read front to back).  One operator per    *)
(* emitted function; the operator's branches are the generator's branches  *)
(* on the IR.                                                              *)
(*                                                                         *)
(* The generator's own run (RustBackend.generate over the data types of a  *)
(* namespace) is a second machine over arg, ret and at: what it was given, *)
(* what it has emitted or raised, and how far it is.  Each machine leaves  *)
(* the other's variables alone.                                            *)
(***************************************************************************)
EXTENDS Integers, Sequences, FiniteSets, TLC

VARIABLES typ, json, x, json2, x2, pc, arg, ret, at

vars == <<typ, json, x, json2, x2, pc, arg, ret, at>>
codec == <<typ, json, x, json2, x2, pc>>
gen == <<arg, ret, at>>

\* No generator run is in progress.
GenIdle == arg = <<>> /\ ret = <<>> /\ at = "off"

\* Longest wire object (number of key/value entries) fed to the decoder.
MaxKeys == 4

(***************************************************************************)
(* Values.  JSON values and Rust values are records of one shape, told     *)
(* apart by t: JSON has "int" "str" "bool" "null" "obj"; Rust has "i32"    *)
(* "String" "bool_rs" "None" "struct" "variant" "Other".  o holds an       *)
(* object's entries, a struct's fields (declaration order), or a           *)
(* variant's payload (zero or one entry).                                  *)
(***************************************************************************)
Val(t, i, s, o) == [t |-> t, i |-> i, s |-> s, o |-> o]
Entry(k, v) == [k |-> k, v |-> v]

JInt(n) == Val("int", n, "", <<>>)
JStr(s) == Val("str", 0, s, <<>>)
JBool(b) == Val("bool", IF b THEN 1 ELSE 0, "", <<>>)
JNull == Val("null", 0, "", <<>>)
JObj(entries) == Val("obj", 0, "", entries)

RInt(n) == Val("i32", n, "", <<>>)
RStr(s) == Val("String", 0, s, <<>>)
RBool(b) == Val("bool_rs", IF b THEN 1 ELSE 0, "", <<>>)
RNone == Val("None", 0, "", <<>>)
RStruct(fields) == Val("struct", 0, "", fields)
RUnit(name) == Val("variant", 0, name, <<>>)
RVariant(name, payload) == Val("variant", 0, name, <<Entry("0", payload)>>)
ROther == Val("Other", 0, "", <<>>)

\* Result<T, E>: Ok(val) or Err with serde's error constructor and its argument.
Ok(v) == [ok |-> TRUE, val |-> v, err |-> "", arg |-> ""]
Err(e, a) == [ok |-> FALSE, val |-> JNull, err |-> e, arg |-> a]
NoResult == Err("not_run", "")

(***************************************************************************)
(* The IR (stone.ir) as the generator reads it.                            *)
(***************************************************************************)
Void == [kind |-> "Void"]
Int32 == [kind |-> "Int32"]
Boolean == [kind |-> "Boolean"]
String == [kind |-> "String"]
Float64 == [kind |-> "Float64"]
List(dt) == [kind |-> "List", data_type |-> dt]
Map(key, value) == [kind |-> "Map", key_data_type |-> key, value_data_type |-> value]
Nullable(dt) == [kind |-> "Nullable", data_type |-> dt]
\* An alias has a name of its own; the catalogue's aliases share one.
NamedAlias(words, dt) == [kind |-> "Alias", data_type |-> dt, name |-> words]
Alias(dt) == NamedAlias(<<"an", "alias">>, dt)
\* A DataType subclass the generator has no case for.
Unhandled == [kind |-> "Unhandled"]
StructT(n) == [kind |-> "Struct", name |-> n]
UnionT(n) == [kind |-> "Union", name |-> n]

\* A default as the IR holds it: a Python int, bool, str, or a TagRef.
PyInt(n) == Val("pyint", n, "", <<>>)
PyBool(b) == Val("pybool", IF b THEN 1 ELSE 0, "", <<>>)
PyStr(s) == Val("pystr", 0, s, <<>>)
TagRef(tag_name) == Val("TagRef", 0, tag_name, <<>>)
NoDefault == Val("pynone", 0, "", <<>>)

Field(n, dt) == [name |-> n, data_type |-> dt, has_default |-> FALSE, default |-> NoDefault]
DefaultField(n, dt, d) == [name |-> n, data_type |-> dt, has_default |-> TRUE, default |-> d]
Variant(n, dt) == [name |-> n, data_type |-> dt, catch_all |-> FALSE]
CatchAll(n) == [name |-> n, data_type |-> Void, catch_all |-> TRUE]

Struct(fields) ==
    [meta |-> "Struct", all_fields |-> fields, enumerated_subtypes |-> <<>>, catch_all |-> FALSE]
PolymorphicStruct(fields, subtypes, open) ==
    [meta |-> "Struct", all_fields |-> fields, enumerated_subtypes |-> subtypes, catch_all |-> open]
Union(fields, closed) ==
    [meta |-> "Union", all_fields |-> fields, closed |-> closed]

\* The namespace's data types.  Open unions carry Stone's catch-all field; closed
\* ones carry none.  Subtypes of a polymorphic struct are plain structs with the
\* parent's fields first.
Types ==
    [ Account   |-> Struct(<< Field("name", String),
                              DefaultField("active", Boolean, PyBool(FALSE)),
                              Field("note", Nullable(String)) >>),
      Empty     |-> Struct(<< >>),
      Opts      |-> Struct(<< DefaultField("limit", Int32, PyInt(5)),
                              DefaultField("label", String, PyStr("")),
                              DefaultField("title", String, PyStr("x")),
                              DefaultField("flag", Boolean, PyBool(TRUE)) >>),
      Pref      |-> Struct(<< DefaultField("mode", UnionT("AB"), TagRef("a")),
                              DefaultField("level", Alias(Int32), PyInt(7)) >>),
      File      |-> Struct(<< Field("id", Int32),
                              Field("rev", Nullable(String)) >>),
      Folder    |-> Struct(<< Field("id", Int32) >>),
      Meta      |-> PolymorphicStruct(<< Field("id", Int32) >>,
                                      << Variant("file", StructT("File")),
                                         Variant("folder", StructT("Folder")) >>,
                                      TRUE),
      Circle    |-> Struct(<< Field("r", Int32) >>),
      Square    |-> Struct(<< DefaultField("side", Int32, PyInt(5)) >>),
      Shape     |-> PolymorphicStruct(<< >>,
                                      << Variant("circle", StructT("Circle")),
                                         Variant("square", StructT("Square")) >>,
                                      FALSE),
      AB        |-> Union(<< Variant("a", Void), Variant("b", Int32) >>, TRUE),
      Open      |-> Union(<< Variant("v", Void), Variant("p", Nullable(Int32)),
                             CatchAll("other") >>, FALSE),
      OnlyOther |-> Union(<< CatchAll("other") >>, FALSE),
      Holder    |-> Union(<< Variant("s", StructT("File")),
                             Variant("os", Nullable(StructT("File"))),
                             Variant("es", StructT("Empty")),
                             Variant("al", Alias(StructT("Folder"))) >>, TRUE),
      Nest      |-> Union(<< Variant("e", UnionT("Open")),
                             Variant("ne", Nullable(UnionT("Open"))),
                             CatchAll("other") >>, FALSE),
      NestPoly  |-> Union(<< Variant("m", StructT("Meta")),
                             Variant("sq", Alias(Nullable(Int32))) >>, TRUE),
      Wrap      |-> Struct(<< Field("u", UnionT("OnlyOther")) >>) ]

TypeNames == DOMAIN Types

\* The data type a top-level name stands for.
TypeOf(n) == IF Types[n].meta = "Union" THEN UnionT(n) ELSE StructT(n)

(***************************************************************************)
(* stone.ir helpers the generator calls.                                   *)
(***************************************************************************)
RECURSIVE unwrap_aliases(_)
unwrap_aliases(dt) == IF dt.kind = "Alias" THEN unwrap_aliases(dt.data_type) ELSE dt

RECURSIVE unwrap(_)
unwrap(dt) == IF dt.kind \in {"Alias", "Nullable"} THEN unwrap(dt.data_type) ELSE dt

is_nullable_type(dt) == dt.kind = "Nullable"
is_primitive_type(dt) == dt.kind \in {"Void", "Int32", "Boolean", "String"}
is_numeric_type(dt) == dt.kind = "Int32"
has_enumerated_subtypes(S) == Len(S.enumerated_subtypes) > 0

Indices(seq) == 1..Len(seq)
all_required_fields(S) ==
    SelectSeq(S.all_fields, LAMBDA f : ~is_nullable_type(f.data_type) /\ ~f.has_default)

\* RustHelperBackend.is_enum_type
is_enum_type(dt) ==
    \/ dt.kind = "Union"
    \/ dt.kind = "Struct" /\ has_enumerated_subtypes(Types[dt.name])

\* Index of the first element of seq named n, or 0.
IndexOf(seq, n) ==
    IF \E j \in Indices(seq) : seq[j].name = n
    THEN CHOOSE j \in Indices(seq) : seq[j].name = n /\ \A h \in 1..(j - 1) : seq[h].name # n
    ELSE 0

(***************************************************************************)
(* Deserializers.                                                          *)
(***************************************************************************)
RECURSIVE next_value(_, _)
RECURSIVE key_loop(_, _, _, _)
RECURSIVE internal_deserialize_opt(_, _, _)
RECURSIVE internal_deserialize(_, _)
RECURSIVE polymorphic_visit_map(_, _)
RECURSIVE union_visit_map(_, _)

\* crate::eat_json_fields: reads every remaining entry as (&str, serde_json::Value)
\* and drops it; what is left of the map afterwards.
eat_json_fields(map) == SubSeq(map, Len(map) + 1, Len(map))

\* _default_value with the two Boolean branches exchanged.
_default_value_bool_swapped(field) ==
    IF field.data_type.kind = "Nullable" THEN RNone
    ELSE IF is_numeric_type(unwrap_aliases(field.data_type)) THEN RInt(field.default.i)
    ELSE IF field.default.t = "TagRef" THEN RUnit(field.default.s)
    ELSE IF field.data_type.kind = "Boolean"
         THEN (IF field.default.i = 1 THEN RBool(FALSE) ELSE RBool(TRUE))
    ELSE RStr(field.default.s)

\* RustBackend._default_value, as the Rust value the emitted expression denotes.
_default_value(field) ==
    IF field.data_type.kind = "Nullable" THEN RNone
    ELSE IF is_numeric_type(unwrap_aliases(field.data_type)) THEN RInt(field.default.i)
    ELSE IF field.default.t = "TagRef" THEN RUnit(field.default.s)
    ELSE IF field.data_type.kind = "Boolean"
         THEN (IF field.default.i = 1 THEN RBool(TRUE) ELSE RBool(FALSE))
    ELSE IF field.data_type.kind = "String"
         THEN (IF field.default.s = "" THEN RStr("") ELSE RStr(field.default.s))
    ELSE Val("unhandled", field.default.i, field.default.s, <<>>)

\* The `let mut field_x = None;` slots and the `nothing` flag before the key loop.
EmptySlot == [set |-> FALSE, v |-> RNone]
LoopStart(S) ==
    [ok |-> TRUE, err |-> "", arg |-> "",
     field |-> [j \in Indices(S.all_fields) |-> EmptySlot], nothing |-> TRUE]

\* One declared key's match arm: `if field_x.is_some() { return Err(duplicate_field) }
\* field_x = Some(map.next_value()?)`.
field_arm(field, slot, value) ==
    IF slot.set THEN Err("duplicate_field", field.name)
    ELSE next_value(field.data_type, value)

\* The `_ =>` arm rejecting the key, as serde's deny_unknown_fields would.
unknown_field_arm_denied(key, value) == Err("unknown_field", key)

\* The `_ =>` arm: unknown field allowed and ignored,
\* `map.next_value::<::serde_json::Value>()?;`
unknown_field_arm(key, value) == Ok(value)

\* `while let Some(key) = map.next_key()? { nothing = false; match key { ... } }`
key_loop(S, map, i, st) ==
    IF i > Len(map) THEN st
    ELSE LET key == map[i].k
             j == IndexOf(S.all_fields, key)
             st1 == [st EXCEPT !.nothing = FALSE]
         IN  IF j = 0
             THEN LET r == unknown_field_arm(key, map[i].v)
                  IN  IF ~r.ok
                      THEN [st1 EXCEPT !.ok = FALSE, !.err = r.err, !.arg = r.arg]
                      ELSE key_loop(S, map, i + 1, st1)
             ELSE LET r == field_arm(S.all_fields[j], st.field[j], map[i].v)
                  IN  IF ~r.ok
                      THEN [st1 EXCEPT !.ok = FALSE, !.err = r.err, !.arg = r.arg]
                      ELSE key_loop(S, map, i + 1,
                                    [st1 EXCEPT !.field[j] = [set |-> TRUE, v |-> r.val]])

\* field_result with every absent defaulted field given its type's Default::default()
\* (unwrap_or_default() on all of them) instead of the declared default.
field_result_type_default(field, slot) ==
    IF field.data_type.kind = "Nullable" THEN Ok(IF slot.set THEN slot.v ELSE RNone)
    ELSE IF field.has_default
    THEN Ok(IF slot.set THEN slot.v
            ELSE IF field.data_type.kind = "String" THEN RStr("")
            ELSE IF field.data_type.kind = "Boolean" THEN RBool(FALSE)
            ELSE IF is_numeric_type(unwrap_aliases(field.data_type)) THEN RInt(0)
            ELSE _default_value(field))
    ELSE IF slot.set THEN Ok(slot.v) ELSE Err("missing_field", field.name)

\* One field initialiser of `let result = T { ... }`.
field_result(field, slot) ==
    IF field.data_type.kind = "Nullable"
    THEN \* field_x.and_then(Option::flatten)
         Ok(IF slot.set THEN slot.v ELSE RNone)
    ELSE IF field.has_default
    THEN IF field.data_type.kind = "String" /\ field.default.s = ""
         THEN Ok(IF slot.set THEN slot.v ELSE RStr(""))       \* unwrap_or_default()
         ELSE Ok(IF slot.set THEN slot.v ELSE _default_value(field))
    ELSE IF slot.set THEN Ok(slot.v) ELSE Err("missing_field", field.name)

\* `let result = T { f1: ..., f2: ..., };` the initialisers run in declaration order
\* and the first `?` that fails returns.
struct_result(S, slots) ==
    LET r == [j \in Indices(S.all_fields) |-> field_result(S.all_fields[j], slots[j])]
        bad == {j \in Indices(S.all_fields) : ~r[j].ok}
    IN  IF bad # {}
        THEN r[CHOOSE j \in bad : \A h \in bad : j <= h]
        ELSE Ok(RStruct([j \in Indices(S.all_fields) |->
                            Entry(S.all_fields[j].name, r[j].val)]))

\* deserialize_body returning None whenever no declared field was read, keys of
\* other names notwithstanding.
deserialize_body_unset(S, map, has_opt, optional) ==
    IF Len(S.all_fields) = 0
    THEN IF has_opt THEN Ok(RNone) ELSE Ok(RStruct(<<>>))
    ELSE LET st == key_loop(S, map, 1, LoopStart(S))
         IN  IF ~st.ok THEN Err(st.err, st.arg)
             ELSE IF has_opt /\ optional /\ \A j \in Indices(S.all_fields) : ~st.field[j].set
             THEN Ok(RNone)
             ELSE struct_result(S, st.field)

\* The body shared by internal_deserialize_opt (emitted when the struct has required
\* fields) and internal_deserialize (emitted under that name when it has none).
\* has_opt is the generator's `optional`; optional is the run-time argument.
deserialize_body(S, map, has_opt, optional) ==
    IF Len(S.all_fields) = 0
    THEN IF has_opt THEN Ok(RNone) ELSE Ok(RStruct(<<>>))
    ELSE LET st == key_loop(S, map, 1, LoopStart(S))
         IN  IF ~st.ok THEN Err(st.err, st.arg)
             ELSE IF has_opt /\ optional /\ st.nothing THEN Ok(RNone)
             ELSE struct_result(S, st.field)

internal_deserialize_opt(S, map, optional) == deserialize_body(S, map, TRUE, optional)

internal_deserialize(S, map) ==
    IF Len(all_required_fields(S)) > 0
    THEN internal_deserialize_opt(S, map, FALSE)     \* .map(Option::unwrap)
    ELSE deserialize_body(S, map, FALSE, FALSE)

\* read_tag looking for `.tag` at any position instead of the first.
read_tag_anywhere(map) ==
    IF \E i \in Indices(map) : map[i].k = ".tag" /\ map[i].v.t = "str"
    THEN Ok(RStr(map[CHOOSE i \in Indices(map) : map[i].k = ".tag" /\ map[i].v.t = "str"].v.s))
    ELSE Err("missing_field", ".tag")

\* `let tag = match map.next_key()? { Some(".tag") => map.next_value()?, _ => Err }`
read_tag(map) ==
    IF Len(map) = 0 \/ map[1].k # ".tag" THEN Err("missing_field", ".tag")
    ELSE IF map[1].v.t # "str" THEN Err("invalid_type", "")
    ELSE Ok(RStr(map[1].v.s))

\* The `_ =>` arm of a polymorphic struct's tag match.
polymorphic_unknown_tag(S, tag) ==
    IF S.catch_all THEN Ok(ROther) ELSE Err("unknown_variant", tag)

polymorphic_visit_map(S, map) ==
    LET t == read_tag(map) IN
    IF ~t.ok THEN t
    ELSE LET tag == t.val.s
             rest == Tail(map)
             j == IndexOf(S.enumerated_subtypes, tag)
         IN  IF j = 0 THEN polymorphic_unknown_tag(S, tag)
             ELSE LET subtype == S.enumerated_subtypes[j]
                      r == internal_deserialize(Types[unwrap_aliases(subtype.data_type).name], rest)
                  IN  IF r.ok THEN Ok(RVariant(subtype.name, r.val)) ELSE r

\* A union variant whose payload is neither void nor a plain struct:
\* `match map.next_key()? { Some("name") => V(map.next_value()?), None => ..., _ => Err }`
union_key_arm(field, tag, rest) ==
    IF Len(rest) = 0
    THEN IF unwrap_aliases(field.data_type).kind = "Nullable"
         THEN Ok(RVariant(field.name, RNone))
         ELSE Err("missing_field", field.name)
    ELSE IF rest[1].k = field.name
    THEN LET r == next_value(field.data_type, rest[1].v)
         IN  IF r.ok THEN Ok(RVariant(field.name, r.val)) ELSE r
    ELSE Err("unknown_field", tag)

\* A union variant whose payload is a plain struct: the struct's fields sit beside
\* the tag.
union_struct_arm(field, rest) ==
    LET S == Types[unwrap(field.data_type).name]
        r == IF unwrap_aliases(field.data_type).kind = "Nullable"
             THEN internal_deserialize_opt(S, rest, TRUE)
             ELSE internal_deserialize(S, rest)
    IN  IF r.ok THEN Ok(RVariant(field.name, r.val)) ELSE r

\* One arm of `let value = match tag { ... }` for a known variant.
union_arm(field, tag, rest) ==
    IF field.data_type.kind = "Void" THEN Ok(RUnit(field.name))
    ELSE IF unwrap(field.data_type).kind = "Struct"
            /\ ~has_enumerated_subtypes(Types[unwrap(field.data_type).name])
    THEN union_struct_arm(field, rest)
    ELSE union_key_arm(field, tag, rest)

\* The `_ =>` arm emitted without looking at union.closed.
union_unknown_tag_always_other(U, tag) == Ok(ROther)

\* The `_ =>` arm of a union's tag match.
union_unknown_tag(U, tag) ==
    IF ~U.closed THEN Ok(ROther) ELSE Err("unknown_variant", tag)

\* The known (non-catch-all) variant a tag selects, or 0.
KnownVariant(U, tag) ==
    IF \E j \in Indices(U.all_fields) : U.all_fields[j].name = tag /\ ~U.all_fields[j].catch_all
    THEN IndexOf(U.all_fields, tag)
    ELSE 0

union_visit_map(U, map) ==
    LET t == read_tag(map) IN
    IF ~t.ok THEN t
    ELSE LET tag == t.val.s
             rest == Tail(map)
         IN  IF Len(U.all_fields) = 1 /\ U.all_fields[1].catch_all
             THEN \* open enum with no defined variants
                  Ok(ROther)
             ELSE LET j == KnownVariant(U, tag)
                      value == IF j = 0 THEN union_unknown_tag(U, tag)
                               ELSE union_arm(U.all_fields[j], tag, rest)
                  IN  \* crate::eat_json_fields(&mut map)?; Ok(value)
                      value

\* map.next_value::<T>() / serde_json::from_value::<T>: T is the Rust type of dt.
next_value(dt, jv) ==
    IF dt.kind = "Alias" THEN next_value(dt.data_type, jv)
    ELSE IF dt.kind = "Nullable"
    THEN IF jv.t = "null" THEN Ok(RNone) ELSE next_value(dt.data_type, jv)
    ELSE IF dt.kind = "Int32"
    THEN IF jv.t = "int" THEN Ok(RInt(jv.i)) ELSE Err("invalid_type", "")
    ELSE IF dt.kind = "Boolean"
    THEN IF jv.t = "bool" THEN Ok(RBool(jv.i = 1)) ELSE Err("invalid_type", "")
    ELSE IF dt.kind = "String"
    THEN IF jv.t = "str" THEN Ok(RStr(jv.s)) ELSE Err("invalid_type", "")
    ELSE IF jv.t # "obj" THEN Err("invalid_type", "")
    ELSE IF dt.kind = "Union" THEN union_visit_map(Types[dt.name], jv.o)
    ELSE IF has_enumerated_subtypes(Types[dt.name])
    THEN polymorphic_visit_map(Types[dt.name], jv.o)
    ELSE internal_deserialize(Types[dt.name], jv.o)

(***************************************************************************)
(* Serializers.  A serializer's Ok value is the JSON object it wrote.      *)
(***************************************************************************)
RECURSIVE serialize(_, _)
RECURSIVE internal_serialize(_, _)
RECURSIVE write_fields(_, _, _, _)
RECURSIVE struct_serialize(_, _)
RECURSIVE polymorphic_serialize(_, _)
RECURSIVE union_serialize(_, _)

\* field_is_written with the two Boolean conditions exchanged.
field_is_written_bool_swapped(field, val) ==
    IF is_nullable_type(field.data_type) THEN val.t # "None"
    ELSE IF field.has_default
    THEN IF field.data_type.kind = "String" /\ field.default.s = "" THEN val.s # ""
         ELSE IF field.data_type.kind = "Boolean"
         THEN (IF field.default.i = 1 THEN val.i = 1 ELSE val.i # 1)
         ELSE val # _default_value(field)
    ELSE TRUE

\* The `if` the generator wraps around a field's `s.serialize_field(...)`.
field_is_written(field, val) ==
    IF is_nullable_type(field.data_type)
    THEN val.t # "None"                                    \* if let Some(val) = &self.f
    ELSE IF field.has_default
    THEN IF field.data_type.kind = "String" /\ field.default.s = ""
         THEN val.s # ""                                   \* if !self.f.is_empty()
         ELSE IF field.data_type.kind = "Boolean"
         THEN (IF field.default.i = 1 THEN val.i # 1       \* if !self.f
                                      ELSE val.i = 1)      \* if self.f
         ELSE val # _default_value(field)                  \* if self.f != <default>
    ELSE TRUE

\* s.serialize_field(key, value)?  appended to what was written so far.
serialize_field(written, key, dt, value) ==
    IF ~written.ok THEN written
    ELSE LET r == serialize(dt, value)
         IN  IF r.ok THEN Ok(JObj(Append(written.val.o, Entry(key, r.val)))) ELSE r

\* The field statements of internal_serialize from field j on.
write_fields(S, v, j, written) ==
    IF j > Len(S.all_fields) \/ ~written.ok THEN written
    ELSE LET field == S.all_fields[j]
             val == v.o[j].v
         IN  write_fields(S, v, j + 1,
                 IF field_is_written(field, val)
                 THEN serialize_field(written, field.name,
                                      IF is_nullable_type(field.data_type)
                                      THEN field.data_type.data_type
                                      ELSE field.data_type, val)
                 ELSE written)

\* T::internal_serialize(&self, s): written is the SerializeStruct so far.
internal_serialize(S, args) == write_fields(S, args.v, 1, args.s)

struct_serialize(S, v) ==
    IF Len(S.all_fields) = 0 THEN Ok(JObj(<<>>))
    ELSE internal_serialize(S, [v |-> v, s |-> Ok(JObj(<<>>))])

TagEntry(name) == Entry(".tag", JStr(name))

\* The `Other` arm of a polymorphic struct's serializer.
polymorphic_serialize_other(S) == Err("custom", "cannot serialize unknown variant")

polymorphic_serialize(S, v) ==
    IF v.t = "Other" THEN polymorphic_serialize_other(S)
    ELSE LET subtype == S.enumerated_subtypes[IndexOf(S.enumerated_subtypes, v.s)]
         IN  internal_serialize(Types[subtype.data_type.name],
                                [v |-> v.o[1].v, s |-> Ok(JObj(<<TagEntry(subtype.name)>>))])

\* The `Other` arm writing the catch-all field's tag instead of failing.
union_serialize_other_as_tag(U) == Ok(JObj(<<TagEntry("other")>>))

\* The `Other` arm of a union's serializer.
union_serialize_other(U) == Err("custom", "cannot serialize 'Other' variant")

\* The no-variants special case left out: the generic `Other` arm answers.
union_serialize_no_variants_generic(U) == Err("custom", "cannot serialize 'Other' variant")

\* The serializer of an open union with no variants defined.
union_serialize_no_variants(U) ==
    Err("custom", "cannot serialize an open union with no defined variants")

\* union_serialize_arm nesting every payload under the variant's key, plain structs
\* included.
union_serialize_arm_all_nested(field, xv) ==
    serialize_field(Ok(JObj(<<TagEntry(field.name)>>)), field.name, field.data_type, xv)

\* One non-void variant's serializer arm; xv is the payload `x`.
union_serialize_arm(field, xv) ==
    LET ultimate_type == unwrap(field.data_type)
        tagged == Ok(JObj(<<TagEntry(field.name)>>))
    IN  IF is_enum_type(ultimate_type)
        THEN \* union or polymorphic struct
             serialize_field(tagged, field.name, field.data_type, xv)
        ELSE IF unwrap_aliases(field.data_type).kind = "Nullable"
        THEN \* nullable (struct or primitive)
             IF xv.t = "None" THEN tagged
             ELSE IF is_primitive_type(ultimate_type)
                  THEN serialize_field(tagged, field.name, ultimate_type, xv)
                  ELSE internal_serialize(Types[ultimate_type.name], [v |-> xv, s |-> tagged])
        ELSE IF ultimate_type.kind = "Struct"
        THEN \* struct
             IF Len(Types[ultimate_type.name].all_fields) > 0
             THEN internal_serialize(Types[ultimate_type.name], [v |-> xv, s |-> tagged])
             ELSE tagged
        ELSE \* primitive
             serialize_field(tagged, field.name, field.data_type, xv)

union_serialize(U, v) ==
    IF Len(U.all_fields) = 1 /\ U.all_fields[1].catch_all
    THEN union_serialize_no_variants(U)
    ELSE IF v.t = "Other" THEN union_serialize_other(U)
    ELSE LET field == U.all_fields[IndexOf(U.all_fields, v.s)]
         IN  IF field.data_type.kind = "Void"
             THEN Ok(JObj(<<TagEntry(field.name)>>))       \* unit
             ELSE union_serialize_arm(field, v.o[1].v)

\* <T as Serialize>::serialize for the Rust type of dt.
serialize(dt, v) ==
    IF dt.kind = "Alias" THEN serialize(dt.data_type, v)
    ELSE IF dt.kind = "Nullable"
    THEN IF v.t = "None" THEN Ok(JNull) ELSE serialize(dt.data_type, v)
    ELSE IF dt.kind = "Int32" THEN Ok(JInt(v.i))
    ELSE IF dt.kind = "Boolean" THEN Ok(JBool(v.i = 1))
    ELSE IF dt.kind = "String" THEN Ok(JStr(v.s))
    ELSE IF dt.kind = "Union" THEN union_serialize(Types[dt.name], v)
    ELSE IF has_enumerated_subtypes(Types[dt.name])
    THEN polymorphic_serialize(Types[dt.name], v)
    ELSE struct_serialize(Types[dt.name], v)

(***************************************************************************)
(* Wire objects fed to the decoder: every sequence of at most MaxKeys      *)
(* entries over the keys the type declares (each with sample values), the  *)
(* `.tag` key with every declared tag and an undeclared one, and a key no  *)
(* type declares.                                                          *)
(***************************************************************************)
\* The tag the emitted tests put in place of "other" (test.stoneg.py).
BogusTag == "dropbox-sdk-rust-bogus-test-variant"
UnknownEntry == Entry("zz", JInt(5))

\* JSON objects used where a key holds a user-defined type.
NestedJson(n) ==
    IF n = "AB" THEN {JObj(<<TagEntry("a")>>), JObj(<<TagEntry("b"), Entry("b", JInt(5))>>)}
    ELSE IF n = "Open" THEN {JObj(<<TagEntry("v")>>), JObj(<<TagEntry(BogusTag)>>)}
    ELSE IF n = "OnlyOther" THEN {JObj(<<TagEntry(BogusTag)>>)}
    ELSE IF n = "Meta" THEN {JObj(<<TagEntry("folder"), Entry("id", JInt(5))>>),
                             JObj(<<TagEntry(BogusTag)>>)}
    ELSE {JObj(<<>>)}

RECURSIVE SampleJson(_)
SampleJson(dt) ==
    IF dt.kind = "Alias" THEN SampleJson(dt.data_type)
    ELSE IF dt.kind = "Nullable" THEN {JNull} \cup SampleJson(dt.data_type)
    ELSE IF dt.kind = "Int32" THEN {JInt(5), JInt(7)}
    ELSE IF dt.kind = "Boolean" THEN {JBool(TRUE), JBool(FALSE)}
    ELSE IF dt.kind = "String" THEN {JStr("x"), JStr("")}
    ELSE IF dt.kind = "Void" THEN {}
    ELSE NestedJson(dt.name)

Range(seq) == {seq[j] : j \in Indices(seq)}
FieldEntries(fields) ==
    UNION {{Entry(f.name, j) : j \in SampleJson(f.data_type)} : f \in Range(fields)}
TagEntries(fields) == {TagEntry(f.name) : f \in Range(fields)} \cup {TagEntry(BogusTag)}

\* The keys a union variant's payload is read from.
PayloadEntries(field) ==
    IF unwrap(field.data_type).kind = "Struct"
       /\ ~has_enumerated_subtypes(Types[unwrap(field.data_type).name])
    THEN FieldEntries(Types[unwrap(field.data_type).name].all_fields)
    ELSE {Entry(field.name, j) : j \in SampleJson(field.data_type)}

WireEntries(n) ==
    LET T == Types[n] IN
    {UnknownEntry} \cup
    IF T.meta = "Union"
    THEN TagEntries(T.all_fields) \cup UNION {PayloadEntries(f) : f \in Range(T.all_fields)}
    ELSE IF has_enumerated_subtypes(T)
    THEN TagEntries(T.enumerated_subtypes)
         \cup UNION {PayloadEntries(f) : f \in Range(T.enumerated_subtypes)}
    ELSE FieldEntries(T.all_fields)

Wires(n) == UNION {[1..k -> WireEntries(n)] : k \in 0..MaxKeys}

(***************************************************************************)
(* The emitted test: from_str, to_string, from_str again.                  *)
(***************************************************************************)
\* ::serde_json::from_str::<T>(json)
from_str(n, wire) == next_value(TypeOf(n), JObj(wire))

\* ::serde_json::to_string(&x)
to_string(n, v) == serialize(TypeOf(n), v)

Init ==
    /\ typ \in TypeNames
    /\ json \in Wires(typ)
    /\ x = NoResult
    /\ json2 = NoResult
    /\ x2 = NoResult
    /\ pc = "json"
    /\ GenIdle

\* let x = ::serde_json::from_str::<T>(json)
Deserialize ==
    /\ pc = "json"
    /\ x' = from_str(typ, json)
    /\ pc' = "x"
    /\ UNCHANGED <<typ, json, json2, x2>>
    /\ UNCHANGED gen

\* let json2 = ::serde_json::to_string(&x)
Serialize ==
    /\ pc = "x"
    /\ x.ok
    /\ json2' = to_string(typ, x.val)
    /\ pc' = "json2"
    /\ UNCHANGED <<typ, json, x, x2>>
    /\ UNCHANGED gen

\* let x2 = ::serde_json::from_str::<T>(&json2)
Redeserialize ==
    /\ pc = "json2"
    /\ json2.ok
    /\ x2' = from_str(typ, json2.val.o)
    /\ pc' = "x2"
    /\ UNCHANGED <<typ, json, x, json2>>
    /\ UNCHANGED gen

Next == Deserialize \/ Serialize \/ Redeserialize

Spec == Init /\ [][Next]_vars

(***************************************************************************)
(* Vocabulary of the properties.                                           *)
(***************************************************************************)
T == Types[typ]
Decoded == pc # "json"
Encoded == pc \in {"json2", "x2"}
IsPlainStruct == T.meta = "Struct" /\ ~has_enumerated_subtypes(T)
IsPolymorphic == T.meta = "Struct" /\ has_enumerated_subtypes(T)
IsUnion == T.meta = "Union"
IsEnum == IsUnion \/ IsPolymorphic
IsOpen == IF IsUnion THEN ~T.closed ELSE T.catch_all
OnlyCatchAll == IsUnion /\ Len(T.all_fields) = 1 /\ T.all_fields[1].catch_all

\* The variants a tag can name: every field but the catch-all.
Variants ==
    IF IsUnion THEN SelectSeq(T.all_fields, LAMBDA f : ~f.catch_all)
    ELSE T.enumerated_subtypes
KnownTags == {f.name : f \in Range(Variants)}
StartsWithTag == Len(json) > 0 /\ json[1].k = ".tag"
Tag == json[1].v.s
VariantOf(name) == Variants[IndexOf(Variants, name)]

RECURSIVE ContainsOther(_)
ContainsOther(v) == v.t = "Other" \/ \E j \in Indices(v.o) : ContainsOther(v.o[j].v)

\* A field's declared default as a Rust value, read off the IR literal.
DeclaredDefault(f) ==
    IF f.default.t = "pyint" THEN RInt(f.default.i)
    ELSE IF f.default.t = "pybool" THEN RBool(f.default.i = 1)
    ELSE IF f.default.t = "pystr" THEN RStr(f.default.s)
    ELSE RUnit(f.default.s)

KeyCount(entries, k) == Cardinality({j \in Indices(entries) : entries[j].k = k})
Present(k) == KeyCount(json, k) > 0
Declared(k) == IndexOf(T.all_fields, k) # 0
NoRepeatedDeclaredKey == \A k \in {json[i].k : i \in Indices(json)} : Declared(k) => KeyCount(json, k) = 1
Swap(w, i) == [w EXCEPT ![i] = w[i + 1], ![i + 1] = w[i]]
StripUndeclared(w) == SelectSeq(w, LAMBDA e : Declared(e.k))

(***************************************************************************)
(* C1  Round-trip law: a decoded value that holds no catch-all `Other` is  *)
(* written by the serializer, and decoding what was written gives the      *)
(* value back.                                                             *)
(***************************************************************************)
RoundTripLaw ==
    /\ (Encoded /\ ~ContainsOther(x.val)) => json2.ok
    /\ (pc = "x2" /\ ~ContainsOther(x.val)) => x2 = x

RoundTripWitness ==
    /\ pc = "x2"
    /\ typ = "Holder"
    /\ x.val.s = "os"
    /\ x.val.o[1].v.t = "struct"
    /\ x2 = x

(***************************************************************************)
(* C2  Default-elision law.  As claimed: the struct serializer writes a    *)
(* field exactly when it is nullable and present, or has no default, or    *)
(* has a default and differs from it; {name:"x", active:false} is written  *)
(* as {"name":"x"} and {name:"x", active:true} as                          *)
(* {"name":"x","active":true}.  The law is about the values the serializer *)
(* writes: a struct with a field that holds a catch-all `Other` is         *)
(* rejected whole.                                                         *)
(***************************************************************************)
WrittenAsClaimed(f, v) ==
    \/ is_nullable_type(f.data_type) /\ v.t # "None"
    \/ ~f.has_default
    \/ f.has_default /\ v # DeclaredDefault(f)

WrittenWhenNotNullable(f, v) ==
    IF is_nullable_type(f.data_type) THEN v.t # "None"
    ELSE ~f.has_default \/ v # DeclaredDefault(f)

Written(reading, f, v) ==
    IF reading = "claimed" THEN WrittenAsClaimed(f, v) ELSE WrittenWhenNotNullable(f, v)

DefaultElision(reading) ==
    (Encoded /\ IsPlainStruct /\ ~ContainsOther(x.val)) =>
        /\ json2.ok
        /\ \A j \in Indices(T.all_fields) :
              KeyCount(json2.val.o, T.all_fields[j].name)
                  = IF Written(reading, T.all_fields[j], x.val.o[j].v) THEN 1 ELSE 0
        /\ Len(json2.val.o) <= Len(T.all_fields)
        /\ (typ = "Account" /\ x.val.o[1].v = RStr("x") /\ x.val.o[3].v = RNone) =>
              /\ x.val.o[2].v = RBool(FALSE) => json2.val.o = <<Entry("name", JStr("x"))>>
              /\ x.val.o[2].v = RBool(TRUE) =>
                    json2.val.o = <<Entry("name", JStr("x")), Entry("active", JBool(TRUE))>>

DefaultElisionAsClaimed == DefaultElision("claimed")

(***************************************************************************)
(* C2 as amended: the struct serializer writes a nullable field exactly    *)
(* when it is present, and any other field exactly when it has no default  *)
(* or differs from its default; the two encodings of the scenario are as   *)
(* claimed.                                                                *)
(***************************************************************************)
DefaultElisionLaw == DefaultElision("amended")

DefaultElisionWitness ==
    /\ pc = "json2"
    /\ typ = "Account"
    /\ x.val.o[2].v = RBool(FALSE)
    /\ x.val.o[3].v = RNone
    /\ json2.val.o = <<Entry("name", JStr("x"))>>

(***************************************************************************)
(* C3  Duplicate-field law: a wire object in which a declared key (a       *)
(* struct field, the field of a struct payload, a union variant's payload  *)
(* key) appears twice never decodes to a value.                            *)
(***************************************************************************)
\* The keys the decoder of the wire object's type declares, given its tag.
DeclaredKeys ==
    IF IsPlainStruct THEN {f.name : f \in Range(T.all_fields)}
    ELSE IF ~StartsWithTag \/ Tag \notin KnownTags THEN {}
    ELSE LET f == VariantOf(Tag)
             u == unwrap(f.data_type)
         IN  IF f.data_type.kind = "Void" THEN {}
             ELSE IF u.kind = "Struct" /\ ~has_enumerated_subtypes(Types[u.name])
             THEN {g.name : g \in Range(Types[u.name].all_fields)}
             ELSE {f.name}

HasDuplicateDeclaredKey == \E k \in DeclaredKeys : KeyCount(json, k) >= 2

DuplicateFieldLaw == (Decoded /\ HasDuplicateDeclaredKey) => ~x.ok

(***************************************************************************)
(* C4  Unknown-tag law: a wire object whose first key is `.tag` with a     *)
(* value naming no known variant decodes to `Other` when the type is open  *)
(* and to an unknown-variant error when it is closed.                      *)
(***************************************************************************)
UnknownTagLaw ==
    (Decoded /\ IsEnum /\ StartsWithTag /\ Tag \notin KnownTags) =>
        IF IsOpen THEN x = Ok(ROther) ELSE x = Err("unknown_variant", Tag)

UnknownTagWitness ==
    /\ pc = "x"
    /\ typ = "Open"
    /\ Len(json) = 3
    /\ json[1] = TagEntry(BogusTag)
    /\ json[2].k = "p"
    /\ x = Ok(ROther)

(***************************************************************************)
(* C5  Absent fields: once the struct decoder has read every key, a field  *)
(* with no recorded value becomes none if nullable, else its declared      *)
(* default if it has one, else decoding fails with missing_field naming    *)
(* it; a nullable field given null is none as well.                        *)
(***************************************************************************)
MissingRequired ==
    {j \in Indices(T.all_fields) :
        /\ ~Present(T.all_fields[j].name)
        /\ ~is_nullable_type(T.all_fields[j].data_type)
        /\ ~T.all_fields[j].has_default}

AbsentFieldResolution ==
    (Decoded /\ IsPlainStruct /\ NoRepeatedDeclaredKey) =>
        IF MissingRequired # {}
        THEN /\ ~x.ok
             /\ x.err = "missing_field"
             /\ \E j \in MissingRequired : x.arg = T.all_fields[j].name
        ELSE /\ x.ok
             /\ \A j \in Indices(T.all_fields) :
                   LET f == T.all_fields[j] IN
                   /\ ~Present(f.name) =>
                         x.val.o[j].v = IF is_nullable_type(f.data_type) THEN RNone
                                        ELSE DeclaredDefault(f)
                   /\ (\E i \in Indices(json) : json[i] = Entry(f.name, JNull)) =>
                         x.val.o[j].v = RNone

AbsentFieldWitness ==
    /\ pc = "x"
    /\ typ = "Account"
    /\ json = <<Entry("name", JStr("x"))>>
    /\ x.ok
    /\ x.val.o[2] = Entry("active", RBool(FALSE))
    /\ x.val.o[3] = Entry("note", RNone)

(***************************************************************************)
(* C6  Key order and undeclared keys.  As claimed: exchanging two          *)
(* neighbouring keys of a struct's wire object, or dropping its undeclared *)
(* keys, never changes the result of decoding it.                          *)
(***************************************************************************)
KeyOrderIrrelevant ==
    (Decoded /\ IsPlainStruct) =>
        /\ from_str(typ, StripUndeclared(json)) = x
        /\ \A i \in 1..(Len(json) - 1) : from_str(typ, Swap(json, i)) = x

(***************************************************************************)
(* C6 as amended: dropping the undeclared keys never changes the result;   *)
(* exchanging neighbouring keys never changes it when no declared key is   *)
(* repeated; when one is, decoding fails with duplicate_field in every     *)
(* order.                                                                  *)
(***************************************************************************)
KeyOrderIrrelevantUnlessRepeated ==
    (Decoded /\ IsPlainStruct) =>
        /\ from_str(typ, StripUndeclared(json)) = x
        /\ \A i \in 1..(Len(json) - 1) :
              IF NoRepeatedDeclaredKey
              THEN from_str(typ, Swap(json, i)) = x
              ELSE /\ x.err = "duplicate_field"
                   /\ from_str(typ, Swap(json, i)).err = "duplicate_field"

KeyOrderWitness ==
    /\ pc = "x"
    /\ typ = "Account"
    /\ Len(json) = 4
    /\ json[1] = UnknownEntry
    /\ json[2].k = "active"
    /\ json[3] = UnknownEntry
    /\ json[4].k = "name"
    /\ x.ok

(***************************************************************************)
(* C7  The tag is read first: a union or polymorphic struct whose wire     *)
(* object is empty or does not start with `.tag` fails with                *)
(* missing_field(".tag"); when it starts with `.tag`, that key's value     *)
(* alone chooses the variant.                                              *)
(***************************************************************************)
TagReadFirst ==
    (Decoded /\ IsEnum) =>
        /\ ~StartsWithTag => x = Err("missing_field", ".tag")
        /\ (StartsWithTag /\ x.ok) =>
              IF Tag \in KnownTags THEN x.val.t = "variant" /\ x.val.s = Tag
              ELSE x.val.t = "Other"

TagReadFirstWitness ==
    /\ pc = "x"
    /\ typ = "AB"
    /\ json = <<Entry("b", JInt(5)), TagEntry("b")>>
    /\ x = Err("missing_field", ".tag")

(***************************************************************************)
(* C8  Wire shape of a union variant: `.tag` first, then nothing (void),   *)
(* one key named after the variant (primitive), the payload struct's own   *)
(* fields beside the tag (plain struct), or one object nested under a key  *)
(* named after the variant (union, polymorphic struct); the deserializer   *)
(* reads the payload from that same place.  An absent nullable payload     *)
(* leaves the tag alone (primitive, struct) or null under the key (union). *)
(***************************************************************************)
PayloadKind(f) ==
    IF f.data_type.kind = "Void" THEN "void"
    ELSE IF is_enum_type(unwrap(f.data_type)) THEN "enum"
    ELSE IF unwrap(f.data_type).kind = "Struct" THEN "struct"
    ELSE "primitive"

UnionWireShape ==
    /\ (Encoded /\ IsUnion /\ json2.ok) =>
          LET f == VariantOf(x.val.s)
              out == json2.val.o
              kind == PayloadKind(f)
              present == kind # "void" /\ x.val.o[1].v.t # "None"
              absent == kind # "void" /\ x.val.o[1].v.t = "None"
          IN  /\ out[1] = TagEntry(f.name)
              /\ KeyCount(out, ".tag") = 1
              /\ kind = "void" => Len(out) = 1
              /\ (kind = "primitive" /\ present) =>
                    /\ Len(out) = 2
                    /\ out[2].k = f.name
                    /\ out[2].v.t \in {"int", "bool", "str"}
              /\ (kind = "struct" /\ present) =>
                    /\ Tail(out) = struct_serialize(Types[unwrap(f.data_type).name],
                                                    x.val.o[1].v).val.o
                    /\ \A i \in Indices(out) : out[i].v.t # "obj"
              /\ (kind = "enum" /\ present) =>
                    /\ Len(out) = 2
                    /\ out[2].k = f.name
                    /\ out[2].v.t = "obj"
                    /\ out[2].v.o[1].k = ".tag"
              /\ (kind \in {"primitive", "struct"} /\ absent) => Len(out) = 1
              /\ (kind = "enum" /\ absent) => Tail(out) = <<Entry(f.name, JNull)>>
    /\ (pc = "x2" /\ IsUnion) => x2 = x
    /\ (Decoded /\ IsUnion /\ ~OnlyCatchAll /\ StartsWithTag /\ Tag \in KnownTags
          /\ PayloadKind(VariantOf(Tag)) \in {"primitive", "enum"}
          /\ Len(json) >= 2 /\ json[2].k # Tag) => ~x.ok
    /\ (Decoded /\ typ = "AB" /\ json = <<TagEntry("a")>>) => x = Ok(RUnit("a"))
    /\ (Decoded /\ typ = "AB" /\ json = <<TagEntry("b"), Entry("b", JInt(5))>>) =>
          x = Ok(RVariant("b", RInt(5)))

UnionWireShapeWitness ==
    /\ pc = "x2"
    /\ typ = "Holder"
    /\ x.val.s = "s"
    /\ json2.val.o = <<TagEntry("s"), Entry("id", JInt(5)), Entry("rev", JStr("x"))>>
    /\ x2 = x

(***************************************************************************)
(* C9  A union whose only field is the catch-all decodes every object      *)
(* starting with `.tag` to `Other`, and its serializer always fails with   *)
(* the given message.                                                      *)
(***************************************************************************)
NoVariantsUnion(message) ==
    OnlyCatchAll =>
        /\ (Decoded /\ StartsWithTag) => x = Ok(ROther)
        /\ Encoded => json2 = Err("custom", message)

\* C9 as claimed: the message is "cannot serialize open union with no defined
\* variants".
NoVariantsUnionAsClaimed ==
    NoVariantsUnion("cannot serialize open union with no defined variants")

\* C9 as amended: the message is "cannot serialize an open union with no defined
\* variants".
NoVariantsUnionAsEmitted ==
    NoVariantsUnion("cannot serialize an open union with no defined variants")

NoVariantsUnionWitness ==
    /\ pc = "json2"
    /\ typ = "OnlyOther"
    /\ Len(json) = 3
    /\ json[1] = TagEntry("other")
    /\ x = Ok(ROther)
    /\ ~json2.ok

(***************************************************************************)
(* C10  Serializing `Other`.  As claimed: serializing the `Other` variant  *)
(* of an open union or open polymorphic struct returns a typed encode      *)
(* error, and serializing any other variant never returns one.             *)
(***************************************************************************)
EncodeError(r) == ~r.ok /\ r.err = "custom"

OtherNeverSerializes ==
    (Encoded /\ IsEnum /\ IsOpen) =>
        /\ x.val.t = "Other" => EncodeError(json2)
        /\ x.val.t # "Other" => ~EncodeError(json2)

(***************************************************************************)
(* C10 as amended: serializing `Other` returns a typed encode error, and   *)
(* serializing any other variant returns one exactly when its payload      *)
(* holds an `Other` itself.                                                *)
(***************************************************************************)
OtherNeverSerializesUnlessNested ==
    (Encoded /\ IsEnum /\ IsOpen) =>
        /\ x.val.t = "Other" => EncodeError(json2)
        /\ x.val.t # "Other" => (EncodeError(json2) <=> ContainsOther(x.val))
        /\ json2.ok \/ EncodeError(json2)

OtherNeverSerializesWitness ==
    /\ pc = "json2"
    /\ typ = "Open"
    /\ x = Ok(ROther)
    /\ EncodeError(json2)

(***************************************************************************)
(* Identifiers (generator/rust.py).  An IR name is the sequence of its     *)
(* lower-case words, as stone's split_words reads it.  An identifier is a  *)
(* casing and a word sequence: "snake" joins the words with `_`, "pascal"  *)
(* capitalizes each and joins them with nothing, so `SelfStruct` is        *)
(* pascal <<"self", "struct">> and `do_self` is snake <<"do", "self">>.    *)
(* Appending the text `Struct` to a pascal identifier, or `_field` to a    *)
(* snake one, appends a word.                                              *)
(***************************************************************************)
Ident(style, words) == [style |-> style, words |-> words]

\* stone.backends.helpers.fmt_pascal and fmt_underscores
fmt_pascal(name) == Ident("pascal", name)
fmt_underscores(name) == Ident("snake", name)

\* name += 'Struct'   /   name = 'do_' + name
Suffixed(ident, word) == Ident(ident.style, ident.words \o <<word>>)
Prefixed(word, ident) == Ident(ident.style, <<word>> \o ident.words)

Lower(words) == {Ident("snake", <<w>>) : w \in words}
Pascal(names) == {Ident("pascal", n) : n \in names}

RUST_RESERVED_WORDS ==
    Lower({"abstract", "alignof", "as", "async", "become", "box", "break", "const",
           "continue", "crate", "do", "else", "enum", "extern", "false", "final", "fn",
           "for", "if", "impl", "in", "let", "loop", "macro", "match", "mod", "move",
           "mut", "offsetof", "override", "priv", "proc", "pub", "pure", "ref", "return",
           "self", "sizeof", "static", "struct", "super", "trait", "true", "type",
           "typeof", "unsafe", "unsized", "use", "virtual", "where", "while", "yield"})
    \cup Pascal({<<"self">>})

RUST_GLOBAL_NAMESPACE ==
    Lower({"drop"})
    \cup Pascal({<<"copy">>, <<"send">>, <<"sized">>, <<"sync">>, <<"drop">>, <<"fn">>,
                 <<"fn", "mut">>, <<"fn", "once">>, <<"box">>, <<"to", "owned">>,
                 <<"clone">>, <<"partial", "eq">>, <<"partial", "ord">>, <<"eq">>,
                 <<"ord">>, <<"as", "ref">>, <<"as", "mut">>, <<"into">>, <<"from">>,
                 <<"default">>, <<"iterator">>, <<"extend">>, <<"into", "iterator">>,
                 <<"double", "ended", "iterator">>, <<"exact", "size", "iterator">>,
                 <<"option">>, <<"some">>, <<"none">>, <<"result">>, <<"ok">>, <<"err">>,
                 <<"slice", "concat", "ext">>, <<"string">>, <<"to", "string">>,
                 <<"vec">>})

\* The word f'_v{version}' adds to a route's name.
MaxVersion == 3
VersionWord(version) ==
    IF version = 2 THEN "v2" ELSE IF version = 3 THEN "v3" ELSE IF version = 4 THEN "v4"
    ELSE "vn"

namespace_name_raw(ns_name) ==
    LET name == fmt_underscores(ns_name) IN
    IF name \in RUST_RESERVED_WORDS \cup RUST_GLOBAL_NAMESPACE THEN Prefixed("dbx", name)
    ELSE name

namespace_name(ns) == namespace_name_raw(ns.name)

\* struct_name testing the reserved words only.
struct_name_reserved_only(struct) ==
    LET name == fmt_pascal(struct.name) IN
    IF name \in RUST_RESERVED_WORDS THEN Suffixed(name, "struct") ELSE name

struct_name(struct) ==
    LET name == fmt_pascal(struct.name) IN
    IF name \in RUST_RESERVED_WORDS \cup RUST_GLOBAL_NAMESPACE THEN Suffixed(name, "struct")
    ELSE name

enum_name(union) ==
    LET name == fmt_pascal(union.name) IN
    IF name \in RUST_RESERVED_WORDS \cup RUST_GLOBAL_NAMESPACE THEN Suffixed(name, "union")
    ELSE name

field_name_raw(raw) ==
    LET name == fmt_underscores(raw) IN
    IF name \in RUST_RESERVED_WORDS THEN Suffixed(name, "field") ELSE name

field_name(field) == field_name_raw(field.name)

enum_variant_name_raw(raw) ==
    LET name == fmt_pascal(raw) IN
    IF name \in RUST_RESERVED_WORDS THEN Suffixed(name, "variant") ELSE name

enum_variant_name(field) == enum_variant_name_raw(field.name)

\* route_name_raw testing for a reserved word before the version is appended.
route_name_raw_checked_first(raw, version) ==
    LET name == fmt_underscores(raw)
        checked == IF name \in RUST_RESERVED_WORDS THEN Prefixed("do", name) ELSE name
    IN  IF version > 1 THEN Suffixed(checked, VersionWord(version)) ELSE checked

route_name_raw(raw, version) ==
    LET name == fmt_underscores(raw)
        versioned == IF version > 1 THEN Suffixed(name, VersionWord(version)) ELSE name
    IN  IF versioned \in RUST_RESERVED_WORDS THEN Prefixed("do", versioned) ELSE versioned

route_name(route) == route_name_raw(route.name, route.version)

alias_name(alias) ==
    LET name == fmt_pascal(alias.name) IN
    IF name \in RUST_RESERVED_WORDS \cup RUST_GLOBAL_NAMESPACE THEN Suffixed(name, "alias")
    ELSE name

(***************************************************************************)
(* The IR handed to the generator: the codec's data types under their IR   *)
(* names, and further ones that only the generator's own checks, naming    *)
(* and impl selection tell apart.  A type has a name (its words) and a     *)
(* parent_type (an id, "" for none); unions list their parent's fields     *)
(* first (all_fields).                                                     *)
(***************************************************************************)
Named(words, parent, data_type) == [name |-> words, parent_type |-> parent] @@ data_type

ExtraTypes ==
    [ Amb        |-> Named(<<"amb">>, "",
                        Union(<< Variant("a", Void),
                                 Variant("oe", Nullable(StructT("Empty"))) >>, TRUE)),
      AmbAlias   |-> Named(<<"amb", "alias">>, "",
                        Union(<< Variant("ao", Alias(Nullable(StructT("Opts")))),
                                 CatchAll("other") >>, FALSE)),
      AmbInner   |-> Named(<<"amb", "inner">>, "",
                        Union(<< Variant("s", StructT("Opts")),
                                 Variant("n", Nullable(Alias(StructT("Opts")))) >>, TRUE)),
      \* Names that are also names of the Rust prelude.
      Option     |-> Named(<<"option">>, "",
                        Union(<< Variant("a", Void),
                                 Variant("b", StructT("File")) >>, TRUE)),
      String     |-> Named(<<"string">>, "",
                        Struct(<< Field("id", Int32),
                                  Field("self", Nullable(StructT("Result"))),
                                  Field("type", NamedAlias(<<"box">>, UnionT("Option"))) >>)),
      Result     |-> Named(<<"result">>, "",
                        PolymorphicStruct(<< Field("id", Int32) >>,
                                          << Variant("file", StructT("File")),
                                             Variant("folder", StructT("Folder")) >>,
                                          TRUE)),
      \* Names that end in Error, and the one of the extra display list.
      LookupError |-> Named(<<"lookup", "error">>, "",
                        Union(<< Variant("missing", Void),
                                 Variant("inner", UnionT("AB")),
                                 CatchAll("other") >>, FALSE)),
      MetaError  |-> Named(<<"meta", "error">>, "",
                        PolymorphicStruct(<< Field("id", Int32) >>,
                                          << Variant("file", StructT("File")),
                                             Variant("folder", StructT("Folder")) >>,
                                          FALSE)),
      PlainError |-> Named(<<"plain", "error">>, "",
                        Struct(<< Field("id", Int32) >>)),
      RateLimitReason |-> Named(<<"rate", "limit", "reason">>, "",
                        Union(<< Variant("a", Void), CatchAll("other") >>, FALSE)),
      \* Unions that extend a union.  A closed union extends only a closed one;
      \* an open one inherits the catch-all of an open parent and has its own
      \* otherwise.
      OpenChild  |-> Named(<<"open", "child">>, "Open",
                        Union(Types["Open"].all_fields
                              \o << Variant("extra", StructT("File")) >>, FALSE)),
      GrandChild |-> Named(<<"grand", "child">>, "OpenChild",
                        Union(Types["Open"].all_fields
                              \o << Variant("extra", StructT("File")),
                                    Variant("more", Void) >>, FALSE)),
      ClosedChild |-> Named(<<"closed", "child">>, "AB",
                        Union(Types["AB"].all_fields
                              \o << Variant("c", Nullable(String)) >>, TRUE)),
      WidenedChild |-> Named(<<"widened", "child">>, "AB",
                        Union(Types["AB"].all_fields
                              \o << Variant("c", Void), CatchAll("other") >>, FALSE)),
      \* Constructs the generator has no case for: a data type of a kind it does
      \* not know, defaults on fields typed by an alias, a doc tag.
      Future     |-> Named(<<"future">>, "",
                        Struct(<< Field("id", Int32), Field("soon", Unhandled) >>)),
      FutureUnion |-> Named(<<"future", "union">>, "",
                        Union(<< Variant("a", Void), Variant("soon", Nullable(Unhandled)) >>,
                              TRUE)),
      Toggle     |-> Named(<<"toggle">>, "",
                        Struct(<< DefaultField("limit", Int32, PyInt(0)),
                                  DefaultField("on", NamedAlias(<<"switch">>, Boolean),
                                               PyBool(TRUE)) >>)),
      Caption    |-> Named(<<"caption">>, "",
                        Struct(<< Field("id", Int32),
                                  DefaultField("text", NamedAlias(<<"line">>, String),
                                               PyStr("x")) >>)),
      Documented |-> Named(<<"documented">>, "",
                        Union(<< Variant("a", Void) >>, TRUE)),
      \* Floating-point numbers, held directly and in containers.
      Measure    |-> Named(<<"measure">>, "",
                        Struct(<< Field("value", Float64), Field("unit", String) >>)),
      Survey     |-> Named(<<"survey">>, "",
                        Union(<< Variant("none", Void),
                                 Variant("all", List(Nullable(StructT("Measure")))) >>, TRUE)),
      Scale      |-> Named(<<"scale">>, "",
                        Struct(<< Field("id", Int32),
                                  Field("factor",
                                        Nullable(NamedAlias(<<"ratio">>, Float64))) >>)),
      Table      |-> Named(<<"table">>, "",
                        Struct(<< Field("id", Int32),
                                  Field("cells", Map(String, Float64)) >>)),
      Index      |-> Named(<<"index">>, "",
                        Struct(<< Field("pages", Map(String, List(Int32))) >>)),
      \* Every field nullable or defaulted to the zero of its type.
      Blank      |-> Named(<<"blank">>, "",
                        Struct(<< DefaultField("count", Int32, PyInt(0)),
                                  DefaultField("rank", NamedAlias(<<"rank">>, Int32), PyInt(0)),
                                  DefaultField("on", Boolean, PyBool(FALSE)),
                                  DefaultField("note", String, PyStr("")),
                                  Field("tag", Nullable(String)) >>)) ]

TypeWords ==
    [ Account |-> <<"account">>, Empty |-> <<"empty">>, Opts |-> <<"opts">>,
      Pref |-> <<"pref">>, File |-> <<"file">>, Folder |-> <<"folder">>,
      Meta |-> <<"meta">>, Circle |-> <<"circle">>, Square |-> <<"square">>,
      Shape |-> <<"shape">>, AB |-> <<"ab">>, Open |-> <<"open">>,
      OnlyOther |-> <<"only", "other">>, Holder |-> <<"holder">>, Nest |-> <<"nest">>,
      NestPoly |-> <<"nest", "poly">>, Wrap |-> <<"wrap">> ]

\* The parent_type of the subtypes of the polymorphic structs.
TypeParents ==
    [ File |-> "Meta", Folder |-> "Meta", Circle |-> "Shape", Square |-> "Shape" ]

\* namespace.data_types, by id.
DataTypes ==
    [id \in DOMAIN Types |->
        Named(TypeWords[id], IF id \in DOMAIN TypeParents THEN TypeParents[id] ELSE "",
              Types[id])] @@ ExtraTypes

DataTypeIds == DOMAIN DataTypes

\* The doc references (:tag:`val`) in the doc strings of the data types that
\* have any.
DocRef(tag, val) == [tag |-> tag, val |-> val]
TypeDocs ==
    [ Account    |-> << DocRef("val", "null"), DocRef("link", "x") >>,
      AB         |-> << DocRef("field", "a"), DocRef("type", "Account") >>,
      Documented |-> << DocRef("val", "x"), DocRef("code", "x") >> ]
doc(id) == IF id \in DOMAIN TypeDocs THEN TypeDocs[id] ELSE <<>>

\* The error a run stops with: what was raised, on which type and member.
NoError == [raised |-> FALSE, message |-> "", type_name |-> <<>>, field_name |-> ""]
RuntimeError(message, owner, member) ==
    [raised |-> TRUE, message |-> message, type_name |-> owner, field_name |-> member]

\* The words of a field's or variant's name; the catalogue's are one word each.
split_words(name) == <<name>>

(***************************************************************************)
(* rust_type: the Rust type expression for a data type.  An expression is  *)
(* a head ("i32", "Option", ..., "user" for a struct or union, "alias"),   *)
(* for the last two the identifier written and for "user" the data type    *)
(* meant, and the expression the head is applied to.  All types live in    *)
(* the one namespace, so nothing is qualified.                             *)
(***************************************************************************)
NoIdent == [style |-> "", words |-> <<>>]
TypeExpr(head, id, ident, inner) == [head |-> head, to |-> id, ident |-> ident, of |-> inner]
NoType == TypeExpr("", "", NoIdent, <<>>)

\* The first error raised in a sequence of results, in order.
FirstError(results) ==
    IF \E j \in Indices(results) : results[j].error.raised
    THEN results[CHOOSE j \in Indices(results) :
                    /\ results[j].error.raised
                    /\ \A h \in 1..(j - 1) : ~results[h].error.raised].error
    ELSE NoError

RECURSIVE rust_type(_)
rust_type(dt) ==
    IF dt.kind = "Nullable"
    THEN LET t == rust_type(dt.data_type) IN
         [error |-> t.error, text |-> TypeExpr("Option", "", NoIdent, <<t.text>>)]
    ELSE IF dt.kind = "Void" THEN [error |-> NoError, text |-> TypeExpr("()", "", NoIdent, <<>>)]
    ELSE IF dt.kind = "Int32" THEN [error |-> NoError, text |-> TypeExpr("i32", "", NoIdent, <<>>)]
    ELSE IF dt.kind = "Boolean"
    THEN [error |-> NoError, text |-> TypeExpr("bool", "", NoIdent, <<>>)]
    ELSE IF dt.kind = "Float64"
    THEN [error |-> NoError, text |-> TypeExpr("f64", "", NoIdent, <<>>)]
    ELSE IF dt.kind = "String"
    THEN [error |-> NoError, text |-> TypeExpr("String", "", NoIdent, <<>>)]
    ELSE IF dt.kind = "List"
    THEN LET t == rust_type(dt.data_type) IN
         [error |-> t.error, text |-> TypeExpr("Vec", "", NoIdent, <<t.text>>)]
    ELSE IF dt.kind = "Map"
    THEN LET k == rust_type(dt.key_data_type)
             v == rust_type(dt.value_data_type)
         IN  [error |-> FirstError(<<k, v>>),
              text |-> TypeExpr("::std::collections::HashMap", "", NoIdent, <<k.text, v.text>>)]
    ELSE IF dt.kind = "Alias"
    THEN [error |-> NoError, text |-> TypeExpr("alias", "", alias_name(dt), <<>>)]
    ELSE IF dt.kind = "Struct"
    THEN [error |-> NoError,
          text |-> TypeExpr("user", dt.name, struct_name(DataTypes[dt.name]), <<>>)]
    ELSE IF dt.kind = "Union"
    THEN [error |-> NoError,
          text |-> TypeExpr("user", dt.name, enum_name(DataTypes[dt.name]), <<>>)]
    ELSE [error |-> RuntimeError("unhandled type", <<>>, ""), text |-> NoType]

(***************************************************************************)
(* What the generator emits for one data type, field by field of the       *)
(* records below.                                                          *)
(***************************************************************************)

\* One arm of the union deserializer's `match tag`: the tag, and how the payload
\* is read ("void", "internal_deserialize_opt", "internal_deserialize", "key").
Arm(tag, reads) == [tag |-> tag, reads |-> reads]

\* union_deserializer_arm that reads every struct payload with internal_deserialize,
\* raising nothing.
union_deserializer_arm_guessing(union, field) ==
    IF field.data_type.kind = "Void" THEN [error |-> NoError, arm |-> Arm(field.name, "void")]
    ELSE IF unwrap(field.data_type).kind = "Struct"
    THEN [error |-> NoError, arm |-> Arm(field.name, "internal_deserialize")]
    ELSE [error |-> NoError, arm |-> Arm(field.name, "key")]

\* _impl_serde_for_union, the arm emitted for one field, or the error raised.
union_deserializer_arm(union, field) ==
    LET ultimate_type == unwrap(field.data_type) IN
    IF field.data_type.kind = "Void"
    THEN [error |-> NoError, arm |-> Arm(field.name, "void")]
    ELSE IF ultimate_type.kind = "Struct"
            /\ ~has_enumerated_subtypes(DataTypes[ultimate_type.name])
    THEN IF unwrap_aliases(field.data_type).kind = "Nullable"
         THEN IF Len(all_required_fields(DataTypes[ultimate_type.name])) = 0
              THEN [error |-> RuntimeError(
                                  "an optional struct with no required fields is ambiguous",
                                  union.name, field.name),
                    arm |-> Arm(field.name, "none")]
              ELSE [error |-> NoError, arm |-> Arm(field.name, "internal_deserialize_opt")]
         ELSE [error |-> NoError, arm |-> Arm(field.name, "internal_deserialize")]
    ELSE [error |-> NoError, arm |-> Arm(field.name, "key")]

\* _impl_serde_for_union: the fields in order, up to the first that raises.  An
\* open union with no defined variants has no `match tag`.
RECURSIVE union_deserializer_arms(_, _, _)
union_deserializer_arms(union, i, arms) ==
    IF Len(union.all_fields) = 1 /\ union.all_fields[1].catch_all
    THEN [error |-> NoError, arms |-> <<>>]
    ELSE IF i > Len(union.all_fields) THEN [error |-> NoError, arms |-> arms]
    ELSE IF union.all_fields[i].catch_all THEN union_deserializer_arms(union, i + 1, arms)
    ELSE LET r == union_deserializer_arm(union, union.all_fields[i]) IN
         IF r.error.raised THEN [error |-> r.error, arms |-> arms]
         ELSE union_deserializer_arms(union, i + 1, Append(arms, r.arm))

\* struct_entry_points with the test on the required fields inverted.
struct_entry_points_inverted(struct) ==
    IF Len(all_required_fields(struct)) = 0
    THEN {"internal_deserialize", "internal_deserialize_opt"}
    ELSE {"internal_deserialize"}

\* _impl_serde_for_struct: the deserializer entry points emitted for a struct.
struct_entry_points(struct) ==
    LET optional == Len(all_required_fields(struct)) > 0 IN
    IF optional THEN {"internal_deserialize", "internal_deserialize_opt"}
    ELSE {"internal_deserialize"}

\* One line of a struct's or enum's body: the member's name and its type
\* (NoType for a variant without payload).
Member(name, type) == [name |-> name, type |-> type]
Other == Member([style |-> "pascal", words |-> <<"other">>], NoType)

\* _emit_struct, the body of `pub struct`: every field, in order.
struct_members(struct) ==
    [j \in Indices(struct.all_fields) |->
        Member(field_name([name |-> split_words(struct.all_fields[j].name)]),
               rust_type(struct.all_fields[j].data_type).text)]

\* _emit_polymorphic_struct, the body of `pub enum`: a variant per enumerated
\* subtype, then Other if the struct is a catch-all.
polymorphic_struct_members(struct) ==
    [j \in Indices(struct.enumerated_subtypes) |->
        Member(enum_variant_name([name |-> split_words(struct.enumerated_subtypes[j].name)]),
               rust_type(struct.enumerated_subtypes[j].data_type).text)]
    \o (IF struct.catch_all THEN <<Other>> ELSE <<>>)

\* _emit_union, the body of `pub enum`: a variant per field that is not the
\* catch-all, then Other if the union is not closed.
union_members(union) ==
    LET fields == SelectSeq(union.all_fields, LAMBDA f : ~f.catch_all) IN
    [j \in Indices(fields) |->
        Member(enum_variant_name([name |-> split_words(fields[j].name)]),
               IF fields[j].data_type.kind = "Void" THEN NoType
               ELSE rust_type(fields[j].data_type).text)]
    \o (IF union.closed THEN <<>> ELSE <<Other>>)

\* The error rust_type raises while a body is written, if any.
struct_members_error(struct) ==
    FirstError([j \in Indices(struct.all_fields) |->
                   rust_type(struct.all_fields[j].data_type)])
polymorphic_struct_members_error(struct) ==
    FirstError([j \in Indices(struct.enumerated_subtypes) |->
                   rust_type(struct.enumerated_subtypes[j].data_type)])
union_members_error(union) ==
    FirstError([j \in Indices(union.all_fields) |->
                   IF union.all_fields[j].catch_all \/ union.all_fields[j].data_type.kind = "Void"
                   THEN [error |-> NoError, text |-> NoType]
                   ELSE rust_type(union.all_fields[j].data_type)])

\* RustHelperBackend.is_enum_type, of a data type of the namespace.
is_enum(data_type) ==
    \/ data_type.meta = "Union"
    \/ data_type.meta = "Struct" /\ has_enumerated_subtypes(data_type)

\* typ.name.endswith('Error'): IR names are written in capitalized words.
endswith_Error(name) == name # <<>> /\ name[Len(name)] = "error"

\* RustBackend.generate: every type used as the error of a route, and every
\* enum type whose name ends in Error.
_error_types(api) ==
    {api.routes[j].error_data_type : j \in Indices(api.routes)}
    \cup {id \in Range(api.data_types) :
             is_enum(DataTypes[id]) /\ endswith_Error(DataTypes[id].name)}

_is_error_type(api, id) == id \in _error_types(api)

\* A path as written in EXTRA_DISPLAY_TYPES: `namespace::Type`, or a bare type.
Path(namespace, type_name) == [namespace |-> namespace, name |-> type_name]
EXTRA_DISPLAY_TYPES ==
    {Path([style |-> "snake", words |-> <<"auth">>],
          [style |-> "pascal", words |-> <<"rate", "limit", "reason">>])}

\* An `impl Trait for Type` block.
Impl(trait, type_name) == [trait |-> trait, type_name |-> type_name]
\* _impl_error, which ends with _impl_display; both name the type by enum_name.
_impl_error(data_type) ==
    {Impl("::std::error::Error", enum_name(data_type)),
     Impl("::std::fmt::Display", enum_name(data_type))}
_impl_display(data_type) == {Impl("::std::fmt::Display", enum_name(data_type))}

\* _emit_struct, after the serde impls.
struct_impls(api, id) ==
    IF _is_error_type(api, id) THEN _impl_error(DataTypes[id])
    ELSE IF Path(NoIdent, rust_type(StructT(id)).text.ident) \in EXTRA_DISPLAY_TYPES
    THEN _impl_display(DataTypes[id])
    ELSE {}

\* _emit_union, after the serde impls.
union_impls(api, id) ==
    IF _is_error_type(api, id) THEN _impl_error(DataTypes[id])
    ELSE IF Path(namespace_name_raw(api.name), rust_type(UnionT(id)).text.ident)
               \in EXTRA_DISPLAY_TYPES
    THEN _impl_display(DataTypes[id])
    ELSE {}

\* `impl From<source> for target`, and one line of its body: what is read of
\* the source, what is built of the target, and whether a payload is carried.
FromImpl(source, target, arms) == [source |-> source, target |-> target, arms |-> arms]
FromArm(from, to, payload) == [from |-> from, to |-> to, payload |-> payload]

\* _impl_from_for_struct: the subtype's fields projected to the parent's.
_impl_from_for_struct(struct, parent) ==
    FromImpl(struct_name(struct), struct_name(parent),
             [j \in Indices(parent.all_fields) |->
                 FromArm(field_name([name |-> split_words(parent.all_fields[j].name)]),
                         field_name([name |-> split_words(parent.all_fields[j].name)]),
                         TRUE)])

\* _impl_from_for_polymorphic_struct: the subtype wrapped in its variant; both
\* types are named by rust_type.
_impl_from_for_polymorphic_struct(id, parent) ==
    LET subtypes == SelectSeq(parent.enumerated_subtypes,
                              LAMBDA subtype : subtype.data_type = StructT(id))
    IN  FromImpl(struct_name(DataTypes[id]), struct_name(parent),
                 [j \in Indices(subtypes) |->
                     FromArm(NoIdent,
                             enum_variant_name([name |-> split_words(subtypes[j].name)]),
                             TRUE)])

\* _impl_from_for_union without the arm for the catch-all field.
_impl_from_for_union_known_only(union, parent) ==
    LET fields == SelectSeq(parent.all_fields, LAMBDA f : ~f.catch_all) IN
    FromImpl(enum_name(parent), enum_name(union),
             [j \in Indices(fields) |->
                 FromArm(enum_variant_name([name |-> split_words(fields[j].name)]),
                         enum_variant_name([name |-> split_words(fields[j].name)]),
                         fields[j].data_type.kind # "Void")])

\* _impl_from_for_union: the parent widened to the union, an arm per field of
\* the parent.
_impl_from_for_union(union, parent) ==
    FromImpl(enum_name(parent), enum_name(union),
             [j \in Indices(parent.all_fields) |->
                 FromArm(enum_variant_name([name |-> split_words(parent.all_fields[j].name)]),
                         enum_variant_name([name |-> split_words(parent.all_fields[j].name)]),
                         parent.all_fields[j].data_type.kind # "Void")])

\* _emit_struct, its last lines.
struct_from_impls(id) ==
    LET struct == DataTypes[id] IN
    IF struct.parent_type = "" THEN <<>>
    ELSE IF has_enumerated_subtypes(DataTypes[struct.parent_type])
    THEN <<_impl_from_for_polymorphic_struct(id, DataTypes[struct.parent_type])>>
    ELSE <<_impl_from_for_struct(struct, DataTypes[struct.parent_type])>>

\* _emit_union, its last lines.
union_from_impls(id) ==
    LET union == DataTypes[id] IN
    IF union.parent_type = "" THEN <<>>
    ELSE <<_impl_from_for_union(union, DataTypes[union.parent_type])>>

\* _docf: what a doc reference becomes (a link to a route, a field or a type,
\* a web link, `None`, or the value as code), and whether a warning is printed.
_docf(tag, val) ==
    IF tag = "route" THEN [warning |-> FALSE, text |-> DocRef("link to route", val)]
    ELSE IF tag = "field" THEN [warning |-> FALSE, text |-> DocRef("link to field", val)]
    ELSE IF tag = "type" THEN [warning |-> FALSE, text |-> DocRef("link to type", val)]
    ELSE IF tag = "link" THEN [warning |-> FALSE, text |-> DocRef("link", val)]
    ELSE IF tag = "val"
    THEN IF val = "null" THEN [warning |-> FALSE, text |-> DocRef("code", "None")]
         ELSE [warning |-> FALSE, text |-> DocRef("code", val)]
    ELSE [warning |-> TRUE, text |-> DocRef("code", val)]

\* _emit_doc: the doc string with its references replaced.
_emit_doc(doc_string) ==
    [j \in Indices(doc_string) |-> _docf(doc_string[j].tag, doc_string[j].val).text]
doc_warnings(doc_string) ==
    IF \E j \in Indices(doc_string) : _docf(doc_string[j].tag, doc_string[j].val).warning
    THEN {"unrecognized link tag"} ELSE {}

\* _needs_explicit_default, and whether it prints its warning.
_needs_explicit_default(field) ==
    IF field.data_type.kind = "Nullable" THEN FALSE
    ELSE IF ~field.has_default \/ field.default.t = "TagRef" THEN TRUE
    ELSE IF is_numeric_type(unwrap_aliases(field.data_type)) THEN field.default.i # 0
    ELSE IF field.data_type.kind = "Boolean" THEN field.default.i = 1
    ELSE IF field.data_type.kind = "String" THEN field.default.s # ""
    ELSE TRUE
_needs_explicit_default_warns(field) ==
    /\ field.data_type.kind # "Nullable"
    /\ field.has_default /\ field.default.t # "TagRef"
    /\ ~is_numeric_type(unwrap_aliases(field.data_type))
    /\ field.data_type.kind \notin {"Boolean", "String"}

\* _emit_struct: Default is derived unless a field needs an explicit default;
\* any() asks the fields in order and stops at the first that does.
derives_default(struct) ==
    ~\E j \in Indices(struct.all_fields) : _needs_explicit_default(struct.all_fields[j])
derive_warnings(struct) ==
    IF \E j \in Indices(struct.all_fields) :
          /\ _needs_explicit_default_warns(struct.all_fields[j])
          /\ \A h \in 1..(j - 1) : ~_needs_explicit_default(struct.all_fields[h])
    THEN {"don't know if field can have derived Default trait"} ELSE {}

\* struct.all_optional_fields
all_optional_fields(struct) ==
    SelectSeq(struct.all_fields, LAMBDA f : is_nullable_type(f.data_type) \/ f.has_default)

\* _emit_new_for_struct and _impl_serde_for_struct: the default written for
\* every optional field, and the warning of _default_value.
struct_defaults(struct) ==
    [j \in Indices(all_optional_fields(struct)) |->
        _default_value(all_optional_fields(struct)[j])]
default_warnings(struct) ==
    IF \E j \in Indices(struct_defaults(struct)) : struct_defaults(struct)[j].t = "unhandled"
    THEN {"unhandled default value"} ELSE {}

\* What #[derive(Default)] gives a field: the Default::default() of its type.
\* Default is derived only over options, numbers, booleans and strings.
type_default(data_type) ==
    IF data_type.kind = "Nullable" THEN RNone
    ELSE IF is_numeric_type(unwrap_aliases(data_type)) THEN RInt(0)
    ELSE IF data_type.kind = "Boolean" THEN RBool(FALSE)
    ELSE RStr("")

\* _impl_default_for_struct: the struct with _default_value in every field.
_impl_default_for_struct(struct) ==
    RStruct([j \in Indices(struct.all_fields) |->
                Entry(struct.all_fields[j].name, _default_value(struct.all_fields[j]))])

\* The Default of a plain struct as _emit_struct leaves it: derived, written
\* out when nothing is required and it was not derived, or absent.
NoImpl == [kind |-> "none", value |-> RNone]
struct_default(struct) ==
    IF derives_default(struct)
    THEN [kind |-> "derive",
          value |-> RStruct([j \in Indices(struct.all_fields) |->
                               Entry(struct.all_fields[j].name,
                                     type_default(struct.all_fields[j].data_type))])]
    ELSE IF Len(all_required_fields(struct)) = 0
    THEN [kind |-> "impl", value |-> _impl_default_for_struct(struct)]
    ELSE NoImpl

DERIVE_TRAITS == {"Debug", "Clone", "PartialEq"}

\* The data type of the namespace named id, as the type of a field names it.
UserDefined(id) == [kind |-> DataTypes[id].meta, name |-> id]

\* hasattr(typ, "data_type")
has_data_type(data_type) == data_type.kind \in {"Nullable", "List", "Alias"}

RECURSIVE _can_derive_eq(_)
_can_derive_eq(data_type) ==
    IF data_type.kind = "Float64" THEN FALSE
    ELSE IF has_data_type(data_type) THEN _can_derive_eq(data_type.data_type)
    ELSE IF data_type.kind = "Struct" /\ has_enumerated_subtypes(DataTypes[data_type.name])
    THEN \A styp \in Range(DataTypes[data_type.name].enumerated_subtypes) :
             _can_derive_eq(styp.data_type)
    ELSE IF data_type.kind \in {"Struct", "Union"}
    THEN \A field \in Range(DataTypes[data_type.name].all_fields) : _can_derive_eq(field.data_type)
    ELSE TRUE

\* derive_traits of _emit_struct, _emit_polymorphic_struct and _emit_union, the
\* Default of _emit_struct apart.
derive_traits(id) ==
    DERIVE_TRAITS \cup (IF _can_derive_eq(UserDefined(id)) THEN {"Eq"} ELSE {})

\* What _emit_struct writes for a plain struct.
struct_item(id) ==
    LET struct == DataTypes[id] IN
    [ typ |-> id,
      defined |-> struct_name(struct),
      members |-> struct_members(struct),
      entry_points |-> struct_entry_points(struct),
      arms |-> <<>>,
      impls |-> struct_impls(arg, id),
      from_impls |-> struct_from_impls(id),
      doc |-> _emit_doc(doc(id)),
      derive_traits |-> derive_traits(id),
      derive_default |-> derives_default(struct),
      default |-> struct_default(struct),
      defaults |-> struct_defaults(struct),
      warnings |-> doc_warnings(doc(id)) \cup derive_warnings(struct)
                   \cup default_warnings(struct) ]

\* The error _emit_struct stops with, if any.
struct_error(id) == struct_members_error(DataTypes[id])

\* What _emit_polymorphic_struct writes.
polymorphic_struct_item(id) ==
    LET struct == DataTypes[id] IN
    [ typ |-> id,
      defined |-> enum_name(struct),
      members |-> polymorphic_struct_members(struct),
      entry_points |-> {},
      arms |-> <<>>,
      impls |-> {},
      from_impls |-> <<>>,
      doc |-> _emit_doc(doc(id)),
      derive_traits |-> derive_traits(id),
      derive_default |-> FALSE,
      defaults |-> <<>>,
      warnings |-> doc_warnings(doc(id)) ]

\* The error _emit_polymorphic_struct stops with, if any.
polymorphic_struct_error(id) == polymorphic_struct_members_error(DataTypes[id])

\* What _emit_union writes when nothing is raised.
union_item(id) ==
    LET union == DataTypes[id] IN
    [ typ |-> id,
      defined |-> enum_name(union),
      members |-> union_members(union),
      entry_points |-> {},
      arms |-> union_deserializer_arms(union, 1, <<>>).arms,
      impls |-> union_impls(arg, id),
      from_impls |-> union_from_impls(id),
      doc |-> _emit_doc(doc(id)),
      derive_traits |-> derive_traits(id),
      derive_default |-> FALSE,
      defaults |-> <<>>,
      warnings |-> doc_warnings(doc(id)) ]

\* The error _emit_union stops with, if any: the body is written before the
\* deserializer.
union_error(id) ==
    IF union_members_error(DataTypes[id]).raised THEN union_members_error(DataTypes[id])
    ELSE union_deserializer_arms(DataTypes[id], 1, <<>>).error

\* RustHelperBackend.is_closed_union
is_closed_union(data_type) ==
    \/ data_type.meta = "Union" /\ data_type.closed
    \/ /\ data_type.meta = "Struct"
       /\ has_enumerated_subtypes(data_type)
       /\ ~data_type.catch_all

\* What TestBackend writes for one data type: the path the codec test parses
\* to, and for a closed union the exhaustive-match test's `let` type and the
\* type its variant paths start with.
test_item(id) ==
    LET data_type == DataTypes[id] IN
    [ typ |-> id,
      rsname |-> struct_name(data_type),
      closed_union |-> is_closed_union(data_type),
      let_type |-> IF is_closed_union(data_type) THEN enum_name(data_type) ELSE NoIdent,
      variant_type |-> IF is_closed_union(data_type) THEN struct_name(data_type) ELSE NoIdent ]

(***************************************************************************)
(* RustBackend.generate: _emit_namespace walks namespace.data_types in     *)
(* order; a raise ends the run, and what the interrupted type had written  *)
(* so far is lost with the output file.  TestBackend.generate walks the    *)
(* same list on its own (at.t), whatever became of the other backend.      *)
(***************************************************************************)
\* Most data types in the namespace.
MaxTypes == 2

\* No codec test is in progress.
CodecIdle ==
    /\ typ = "Empty"
    /\ json = <<>>
    /\ x = NoResult
    /\ json2 = NoResult
    /\ x2 = NoResult
    /\ pc = "off"

\* A namespace holds a data type once.
Namespaces ==
    UNION {{ns \in [1..k -> DataTypeIds] : \A i, j \in 1..k : ns[i] = ns[j] => i = j} :
              k \in 1..MaxTypes}

\* The namespace's routes, as far as generate reads them: none, or one whose
\* error is void or a data type of the namespace.
Routes(data_types) ==
    {<<>>} \cup {<<[error_data_type |-> e]>> : e \in {"Void"} \cup Range(data_types)}

GenInit ==
    /\ CodecIdle
    /\ arg \in {api \in [name : {<<"auth">>, <<"files">>}, data_types : Namespaces,
                          routes : UNION {Routes(ns) : ns \in Namespaces}] :
                   api.routes \in Routes(api.data_types)}
    /\ ret = [emitted |-> <<>>, error |-> NoError, tests |-> <<>>]
    /\ at = [pass |-> "generate", i |-> 1, t |-> 1]

Generating == at.pass = "generate" /\ at.i <= Len(arg.data_types)
current_type == arg.data_types[at.i]

Emit(item) ==
    /\ ret' = [ret EXCEPT !.emitted = Append(@, item)]
    /\ at' = [at EXCEPT !.i = @ + 1]
    /\ UNCHANGED arg
    /\ UNCHANGED codec

Raise(error) ==
    /\ ret' = [ret EXCEPT !.error = error]
    /\ at' = [at EXCEPT !.pass = "raised"]
    /\ UNCHANGED arg
    /\ UNCHANGED codec

_emit_struct ==
    /\ Generating
    /\ DataTypes[current_type].meta = "Struct"
    /\ ~has_enumerated_subtypes(DataTypes[current_type])
    /\ IF struct_error(current_type).raised
       THEN Raise(struct_error(current_type))
       ELSE Emit(struct_item(current_type))

_emit_polymorphic_struct ==
    /\ Generating
    /\ DataTypes[current_type].meta = "Struct"
    /\ has_enumerated_subtypes(DataTypes[current_type])
    /\ IF polymorphic_struct_error(current_type).raised
       THEN Raise(polymorphic_struct_error(current_type))
       ELSE Emit(polymorphic_struct_item(current_type))

_emit_union ==
    /\ Generating
    /\ DataTypes[current_type].meta = "Union"
    /\ IF union_error(current_type).raised
       THEN Raise(union_error(current_type))
       ELSE Emit(union_item(current_type))

\* TestBackend.generate, one data type: _emit_tests, and for a closed union
\* _emit_closed_union_test.
_emit_tests ==
    /\ at.t <= Len(arg.data_types)
    /\ ret' = [ret EXCEPT !.tests = Append(@, test_item(arg.data_types[at.t]))]
    /\ at' = [at EXCEPT !.t = @ + 1]
    /\ UNCHANGED arg
    /\ UNCHANGED codec

GenNext == _emit_struct \/ _emit_polymorphic_struct \/ _emit_union \/ _emit_tests

GenSpec == GenInit /\ [][GenNext]_vars

\* The data type has a Nullable under at most j aliases.
RECURSIVE NullableUnder(_, _)
NullableUnder(dt, j) ==
    \/ dt.kind = "Nullable"
    \/ j > 0 /\ dt.kind = "Alias" /\ NullableUnder(dt.data_type, j - 1)

(***************************************************************************)
(* C11  Optional-struct ambiguity: when the generator reaches a union with *)
(* a variant whose payload is a nullable plain struct without required     *)
(* fields (directly or through aliases), the run stops with the ambiguity  *)
(* error naming the union and the variant (unless writing the enum's body  *)
(* has already stopped it), and nothing is emitted for the union; a union  *)
(* without such a variant never raises that error.                         *)
(***************************************************************************)
Ambiguity == "an optional struct with no required fields is ambiguous"

AmbiguousVariants(id) ==
    {f \in Range(DataTypes[id].all_fields) :
        /\ ~f.catch_all
        /\ unwrap(f.data_type).kind = "Struct"
        /\ ~has_enumerated_subtypes(DataTypes[unwrap(f.data_type).name])
        /\ \E j \in 0..2 : NullableUnder(f.data_type, j)
        /\ Len(all_required_fields(DataTypes[unwrap(f.data_type).name])) = 0}

\* The type reached by the generator just before this state.
previous_type == arg.data_types[at.i - 1]
Emitted(id) == \E j \in Indices(ret.emitted) : ret.emitted[j].typ = id

OptionalStructAmbiguity ==
    /\ at.pass = "raised" =>
          /\ ret.error.raised
          /\ Len(ret.emitted) = at.i - 1
          /\ ~Generating
    /\ (at.pass = "raised"
           /\ DataTypes[current_type].meta = "Union"
           /\ AmbiguousVariants(current_type) # {}
           /\ \A f \in Range(DataTypes[current_type].all_fields) :
                  unwrap(f.data_type).kind # "Unhandled") =>
          ret.error.message = Ambiguity
    /\ (at.pass = "raised" /\ ret.error.message = Ambiguity) =>
          /\ DataTypes[current_type].meta = "Union"
          /\ ret.error.type_name = DataTypes[current_type].name
          /\ \E f \in AmbiguousVariants(current_type) : ret.error.field_name = f.name
    /\ \A j \in Indices(ret.emitted) :
          DataTypes[ret.emitted[j].typ].meta = "Union" =>
              AmbiguousVariants(ret.emitted[j].typ) = {}
    /\ (at.pass = "generate" /\ at.i > 1) =>
          /\ Len(ret.emitted) = at.i - 1
          /\ ret.emitted[at.i - 1].typ = previous_type

OptionalStructAmbiguityWitness ==
    /\ at.pass = "raised"
    /\ arg.data_types = <<"Holder", "AmbAlias">>
    /\ Len(ret.emitted) = 1
    /\ ret.error.type_name = <<"amb", "alias">>
    /\ ret.error.field_name = "ao"

(***************************************************************************)
(* C12  The optional deserializer entry point.  As claimed: a struct with  *)
(* no required field gets a second, optional entry point.                  *)
(***************************************************************************)
EmittedStructs ==
    {j \in Indices(ret.emitted) :
        /\ DataTypes[ret.emitted[j].typ].meta = "Struct"
        /\ ~has_enumerated_subtypes(DataTypes[ret.emitted[j].typ])}
RequiredCount(j) == Len(all_required_fields(DataTypes[ret.emitted[j].typ]))

OptionalEntryPointWithoutRequired ==
    \A j \in EmittedStructs :
        RequiredCount(j) = 0 => "internal_deserialize_opt" \in ret.emitted[j].entry_points

(***************************************************************************)
(* C12 as amended: a struct gets the second, optional entry point exactly  *)
(* when it has at least one required field; that entry point, asked for an *)
(* optional value, returns none when it consumed no key.  Every struct     *)
(* gets internal_deserialize.                                              *)
(***************************************************************************)
OptionalEntryPointWithRequired ==
    \A j \in EmittedStructs :
        /\ "internal_deserialize" \in ret.emitted[j].entry_points
        /\ "internal_deserialize_opt" \in ret.emitted[j].entry_points <=> RequiredCount(j) > 0
        /\ "internal_deserialize_opt" \in ret.emitted[j].entry_points =>
              internal_deserialize_opt(DataTypes[ret.emitted[j].typ], <<>>, TRUE) = Ok(RNone)

OptionalEntryPointWitness ==
    /\ arg.data_types = <<"Opts", "File">>
    /\ Len(ret.emitted) = 2
    /\ ret.emitted[1].entry_points = {"internal_deserialize"}
    /\ ret.emitted[2].entry_points = {"internal_deserialize", "internal_deserialize_opt"}

(***************************************************************************)
(* C14  One identifier per type: the identifier under which the generator  *)
(* defines a data type is the identifier written by every reference to it, *)
(* in the type expressions of the emitted bodies and in the paths of the   *)
(* test backend, also when the IR name collides with a reserved or prelude *)
(* name.                                                                   *)
(***************************************************************************)
Reference(id, ident) == [to |-> id, ident |-> ident]

\* The user-defined types a type expression names.
RECURSIVE TypeReferences(_)
TypeReferences(text) ==
    (IF text.head = "user" THEN {Reference(text.to, text.ident)} ELSE {})
    \cup UNION {TypeReferences(text.of[j]) : j \in Indices(text.of)}

EmittedReferences ==
    UNION {UNION {TypeReferences(member.type) : member \in Range(item.members)} :
              item \in Range(ret.emitted)}
TestReferences ==
    {Reference(ret.tests[j].typ, ret.tests[j].rsname) : j \in Indices(ret.tests)}
    \cup UNION {{Reference(ret.tests[j].typ, ret.tests[j].let_type),
                 Reference(ret.tests[j].typ, ret.tests[j].variant_type)} :
                j \in {h \in Indices(ret.tests) : ret.tests[h].closed_union}}

OneIdentifierPerType ==
    \A j \in Indices(ret.emitted) :
        \A reference \in EmittedReferences \cup TestReferences :
            reference.to = ret.emitted[j].typ => reference.ident = ret.emitted[j].defined

(***************************************************************************)
(* C17  Displayable errors: every emitted data type that is the declared   *)
(* error type of a route, and every emitted tagged union (a union or a     *)
(* struct with enumerated subtypes) whose name ends in Error, has both an  *)
(* Error and a Display impl; every other emitted type, the extra display   *)
(* list apart, has neither.                                                *)
(***************************************************************************)
RouteErrorTypes == {arg.routes[j].error_data_type : j \in Indices(arg.routes)}
NamedError(id) == DataTypes[id].name[Len(DataTypes[id].name)] = "error"
TaggedUnion(id) ==
    DataTypes[id].meta = "Union" \/ Len(DataTypes[id].enumerated_subtypes) > 0
OnExtraDisplayList(id) ==
    arg.name = <<"auth">> /\ DataTypes[id].name = <<"rate", "limit", "reason">>
Traits(item) == {impl.trait : impl \in item.impls}

DisplayableErrors ==
    \A j \in Indices(ret.emitted) :
        LET item == ret.emitted[j] IN
        IF item.typ \in RouteErrorTypes \/ (TaggedUnion(item.typ) /\ NamedError(item.typ))
        THEN Traits(item) = {"::std::error::Error", "::std::fmt::Display"}
        ELSE ~OnExtraDisplayList(item.typ) => Traits(item) = {}

(***************************************************************************)
(* C18  Union widening: an emitted union that extends a parent union has   *)
(* exactly one conversion, from the parent's enum to its own; the arms are *)
(* one for one the variants of the emitted parent enum (Other among them   *)
(* when the parent enum has it), each arm goes to the variant of the same  *)
(* name of the union's own enum, with the same payload or none; a union    *)
(* without a parent has no conversion, and none goes from child to parent. *)
(***************************************************************************)
EmittedUnions == {j \in Indices(ret.emitted) : DataTypes[ret.emitted[j].typ].meta = "Union"}
ParentOf(j) == DataTypes[ret.emitted[j].typ].parent_type
\* The body of the parent's enum as the generator emits it.
ParentEnum(j) == union_members(DataTypes[ParentOf(j)])
MemberNamed(members, name) == {k \in Indices(members) : members[k].name = name}

UnionWidening ==
    \A j \in EmittedUnions :
        LET item == ret.emitted[j] IN
        IF ParentOf(j) = "" THEN item.from_impls = <<>>
        ELSE /\ Len(item.from_impls) = 1
             /\ item.from_impls[1].source = enum_name(DataTypes[ParentOf(j)])
             /\ item.from_impls[1].target = item.defined
             /\ item.from_impls[1].source # item.defined
             /\ Len(item.from_impls[1].arms) = Len(ParentEnum(j))
             /\ \A k \in Indices(ParentEnum(j)) :
                   \E h \in Indices(item.from_impls[1].arms) :
                       LET arm == item.from_impls[1].arms[h] IN
                       /\ arm.from = ParentEnum(j)[k].name
                       /\ arm.to = arm.from
                       /\ arm.payload <=> ParentEnum(j)[k].type # NoType
                       /\ \E own \in MemberNamed(item.members, arm.to) :
                             item.members[own].type = ParentEnum(j)[k].type

UnionWideningWitness ==
    /\ Len(ret.emitted) = 1
    /\ ret.emitted[1].typ = "OpenChild"
    /\ Len(ret.emitted[1].from_impls) = 1
    /\ Len(ret.emitted[1].from_impls[1].arms) = 3
    /\ \E h \in 1..3 : ret.emitted[1].from_impls[1].arms[h].from = Other.name

(***************************************************************************)
(* C19  Nothing is recovered locally: a data type holding a construct the  *)
(* generator has no case for (a data type of unknown kind in a type        *)
(* expression, a default it cannot render, a default it cannot classify, a *)
(* doc tag it does not recognize) ends the run with an error, and nothing  *)
(* is emitted for it.                                                      *)
(***************************************************************************)
Members(id) ==
    IF DataTypes[id].meta = "Struct" /\ Len(DataTypes[id].enumerated_subtypes) > 0
    THEN DataTypes[id].enumerated_subtypes
    ELSE DataTypes[id].all_fields

UnknownKind(id) ==
    \E f \in Range(Members(id)) : unwrap(f.data_type).kind = "Unhandled"

\* The field has a default that is neither none, a number nor a tag, on a type
\* that is neither Boolean nor String itself.
OutsideDefault(f) ==
    /\ f.data_type.kind \notin {"Nullable", "Boolean", "String"}
    /\ unwrap_aliases(f.data_type).kind # "Int32"
    /\ f.default.t \in {"pybool", "pystr", "pyint"}
UnrenderableDefault(id) ==
    /\ DataTypes[id].meta = "Struct"
    /\ Len(DataTypes[id].enumerated_subtypes) = 0
    /\ \E f \in Range(DataTypes[id].all_fields) : f.has_default /\ OutsideDefault(f)

UnrecognizedDocTag(id) ==
    \E ref \in Range(doc(id)) : ref.tag \notin {"route", "field", "type", "link", "val"}

NotHandled(id) == UnknownKind(id) \/ UnrenderableDefault(id) \/ UnrecognizedDocTag(id)

NothingRecovered ==
    /\ \A j \in Indices(ret.emitted) : ~NotHandled(ret.emitted[j].typ)
    /\ \A j \in 1..(at.i - 1) : ~NotHandled(arg.data_types[j])

(***************************************************************************)
(* The naming functions, each applied to an IR name: one or two words of   *)
(* the vocabulary (every word of a reserved or prelude name, the words the *)
(* functions add, and two that collide with nothing), or the words of a    *)
(* reserved or prelude name.                                               *)
(***************************************************************************)
Vocabulary ==
    UNION {Range(ident.words) : ident \in RUST_RESERVED_WORDS \cup RUST_GLOBAL_NAMESPACE}
    \cup {"struct", "union", "field", "variant", "alias", "do", "dbx", "v2", "v3"}
    \cup {"file", "id"}

Names ==
    {<<w>> : w \in Vocabulary}
    \cup {<<v, w>> : v, w \in Vocabulary}
    \cup {ident.words : ident \in RUST_RESERVED_WORDS \cup RUST_GLOBAL_NAMESPACE}

NameInit ==
    /\ CodecIdle
    /\ arg \in [name : Names, version : 1..MaxVersion]
    /\ ret = <<>>
    /\ at = "name"

Call(function, result) ==
    /\ at = "name"
    /\ at' = function
    /\ ret' = result
    /\ UNCHANGED arg
    /\ UNCHANGED codec

call_namespace_name == Call("namespace_name", namespace_name([name |-> arg.name]))
call_struct_name == Call("struct_name", struct_name([name |-> arg.name]))
call_enum_name == Call("enum_name", enum_name([name |-> arg.name]))
call_field_name == Call("field_name", field_name([name |-> arg.name]))
call_enum_variant_name == Call("enum_variant_name", enum_variant_name([name |-> arg.name]))
call_route_name ==
    Call("route_name", route_name([name |-> arg.name, version |-> arg.version]))
call_alias_name == Call("alias_name", alias_name([name |-> arg.name]))

NameNext ==
    \/ call_namespace_name
    \/ call_struct_name
    \/ call_enum_name
    \/ call_field_name
    \/ call_enum_variant_name
    \/ call_route_name
    \/ call_alias_name

NameSpec == NameInit /\ [][NameNext]_vars

(***************************************************************************)
(* C13  Identifiers never collide.  As claimed: no naming function ever    *)
(* returns a reserved word or a name of the prelude.                       *)
(***************************************************************************)
NamingFunctions ==
    {"namespace_name", "struct_name", "enum_name", "field_name", "enum_variant_name",
     "route_name", "alias_name"}
TypeNamingFunctions == {"namespace_name", "struct_name", "enum_name", "alias_name"}

NeverReservedNorGlobal ==
    at \in NamingFunctions => ret \notin RUST_RESERVED_WORDS \cup RUST_GLOBAL_NAMESPACE

(***************************************************************************)
(* C13 as amended: no naming function returns a reserved word; the         *)
(* functions naming types, aliases and namespaces never return a prelude   *)
(* name either; the functions naming fields, variants and routes return a  *)
(* prelude name whenever the converted name is one (`drop`, `None`, `Ok`). *)
(* A converted name that collides gets the function's suffix or prefix,    *)
(* any other is returned as converted.                                     *)
(***************************************************************************)
\* The name after case conversion (and the route's version suffix).
Converted ==
    IF at \in {"struct_name", "enum_name", "enum_variant_name", "alias_name"}
    THEN Ident("pascal", arg.name)
    ELSE IF at = "route_name" /\ arg.version > 1
    THEN Ident("snake", arg.name \o <<VersionWord(arg.version)>>)
    ELSE Ident("snake", arg.name)

Avoided ==
    IF at \in TypeNamingFunctions THEN RUST_RESERVED_WORDS \cup RUST_GLOBAL_NAMESPACE
    ELSE RUST_RESERVED_WORDS

Disambiguated ==
    IF at = "namespace_name" THEN Ident("snake", <<"dbx">> \o Converted.words)
    ELSE IF at = "route_name" THEN Ident("snake", <<"do">> \o Converted.words)
    ELSE IF at = "struct_name" THEN Ident("pascal", Converted.words \o <<"struct">>)
    ELSE IF at = "enum_name" THEN Ident("pascal", Converted.words \o <<"union">>)
    ELSE IF at = "alias_name" THEN Ident("pascal", Converted.words \o <<"alias">>)
    ELSE IF at = "enum_variant_name" THEN Ident("pascal", Converted.words \o <<"variant">>)
    ELSE Ident("snake", Converted.words \o <<"field">>)

NeverReserved ==
    at \in NamingFunctions =>
        /\ ret \notin Avoided
        /\ ret = IF Converted \in Avoided THEN Disambiguated ELSE Converted
        /\ ret \in RUST_GLOBAL_NAMESPACE <=>
              at \notin TypeNamingFunctions /\ Converted \in RUST_GLOBAL_NAMESPACE

NeverReservedWitness ==
    /\ at = "struct_name"
    /\ arg.name = <<"option">>
    /\ ret = Ident("pascal", <<"option", "struct">>)

(***************************************************************************)
(* Unregex: the test backend's regex inversion.  A string is a sequence of *)
(* code points.  The pattern arrives parsed (sre_parse.parse): a sequence  *)
(* of tokens (opcode, argument), the opcode a named integer constant of    *)
(* the sre module, printed by str() as its upper-case name.  A token's     *)
(* argument is spread over n, m (numbers), c (a category), sub (tokens: a  *)
(* class's items, a group's or a repetition's sub-pattern) and alts (the   *)
(* branches of an alternation).                                            *)
(***************************************************************************)
Tok(op, n, m, c, sub, alts) ==
    [opcode |-> op, n |-> n, m |-> m, c |-> c, sub |-> sub, alts |-> alts]
LITERAL(code) == Tok("LITERAL", code, 0, "", <<>>, <<>>)
AT_BEGINNING == Tok("AT", 0, 0, "", <<>>, <<>>)
AT_END == Tok("AT", 1, 0, "", <<>>, <<>>)
IN_(items) == Tok("IN", 0, 0, "", items, <<>>)
NEGATE == Tok("NEGATE", 0, 0, "", <<>>, <<>>)
RANGE(lo, hi) == Tok("RANGE", lo, hi, "", <<>>, <<>>)
CATEGORY(category) == Tok("CATEGORY", 0, 0, category, <<>>, <<>>)
ANY == Tok("ANY", 0, 0, "", <<>>, <<>>)
BRANCH(alternatives) == Tok("BRANCH", 0, 0, "", <<>>, alternatives)
SUBPATTERN(group_number, sub_tokens) == Tok("SUBPATTERN", group_number, 0, "", sub_tokens, <<>>)
GROUPREF(group_number) == Tok("GROUPREF", group_number, 0, "", <<>>, <<>>)
MAX_REPEAT(min_repeat, max_repeat, sub_tokens) ==
    Tok("MAX_REPEAT", min_repeat, max_repeat, "", sub_tokens, <<>>)
MIN_REPEAT(min_repeat, max_repeat, sub_tokens) ==
    Tok("MIN_REPEAT", min_repeat, max_repeat, "", sub_tokens, <<>>)
\* A lookaround's direction is 1 (ahead) or -1 (behind).
ASSERT_NOT(direction, sub_tokens) == Tok("ASSERT_NOT", direction, 0, "", sub_tokens, <<>>)
ASSERT_(direction, sub_tokens) == Tok("ASSERT", direction, 0, "", sub_tokens, <<>>)

\* The repetition bound sre_parse gives `*`, `+` and `{n,}`: 2^32 - 1 in the
\* library, here the largest integer there is; it is only ever compared.
MAXREPEAT == 2147483647

\* str(opcode).lower()
lower_str(opcode) ==
    CASE opcode = "LITERAL" -> "literal"
      [] opcode = "AT" -> "at"
      [] opcode = "IN" -> "in"
      [] opcode = "NEGATE" -> "negate"
      [] opcode = "RANGE" -> "range"
      [] opcode = "CATEGORY" -> "category"
      [] opcode = "ANY" -> "any"
      [] opcode = "BRANCH" -> "branch"
      [] opcode = "SUBPATTERN" -> "subpattern"
      [] opcode = "GROUPREF" -> "groupref"
      [] opcode = "MAX_REPEAT" -> "max_repeat"
      [] opcode = "MIN_REPEAT" -> "min_repeat"
      [] opcode = "ASSERT_NOT" -> "assert_not"
      [] opcode = "ASSERT" -> "assert"
      [] OTHER -> "unknown"

\* `opcode == 'negate'`, `opcode == 'literal'`, `opcode == 'range'` on an opcode
\* that was not passed through str(): a named integer constant against a str.
\* int.__eq__ and str.__eq__ both answer NotImplemented, and Python falls back
\* to identity.
named_int_eq_str(opcode, text) == FALSE

\* string.printable and string.whitespace, as code points.
printable == (32..126) \cup {9, 10, 11, 12, 13}
whitespace == {32, 9, 10, 11, 12, 13}

\* range(a, b)
range(a, b) == a..(b - 1)

\* The `in` opcode, negated branch: rejects and choices.
rejects(argument) ==
    UNION {IF named_int_eq_str(argument[j].opcode, "literal") THEN {argument[j].n}
           ELSE IF named_int_eq_str(argument[j].opcode, "range")
           THEN range(argument[j].n, argument[j].m)
           ELSE {} : j \in 2..Len(argument)}
choices(argument) == (printable \ whitespace) \ rejects(argument)

\* choices[0]: list(set) puts the elements in the order of their hashes, which
\* differs from run to run; the seed says which element comes first.
first_choice(argument, seed) ==
    LET from == {c \in choices(argument) : c >= 33 + seed} IN
    IF from # {} THEN CHOOSE c \in from : \A d \in from : c <= d
    ELSE CHOOSE c \in choices(argument) : \A d \in choices(argument) : c <= d

\* No minimum length was given.
None == -1

\* The number of copies a repetition emits, chosen as min(min_len, max_repeat)
\* whatever min_repeat is.
repeat_count_unclamped(min_len, min_repeat, max_repeat) ==
    IF min_len # None /\ min_len # 0
    THEN IF min_len < max_repeat THEN min_len ELSE max_repeat
    ELSE min_repeat

\* The number of copies a repetition emits.
repeat_count(min_len, min_repeat, max_repeat) ==
    IF min_len # None /\ min_len # 0
    THEN LET least == IF min_len < max_repeat THEN min_len ELSE max_repeat
         IN  IF min_repeat > least THEN min_repeat ELSE least
    ELSE min_repeat

\* str * n
RECURSIVE Times(_, _)
Times(str, n) == IF n <= 0 THEN <<>> ELSE str \o Times(str, n - 1)

\* How far _generate has come: the exception raised ("" for none), the result
\* so far, and self._group_refs.
Acc(error, result, group_refs) == [error |-> error, result |-> result, group_refs |-> group_refs]

\* Most groups in a pattern.
MaxGroups == 1
NoGroupRefs == [g \in 1..MaxGroups |-> [set |-> FALSE, text |-> <<>>]]

\* Unregex._generate: the tokens from the i-th on; self is the minimum length
\* and the seed of this run.
RECURSIVE _generate(_, _, _, _)
generate_token(self, token, acc) ==
    LET opcode == lower_str(token.opcode)
        sub(tokens) == _generate(self, tokens, 1, Acc("", <<>>, acc.group_refs))
        add(str) == Acc("", acc.result \o str, acc.group_refs)
    IN
    IF opcode = "literal" THEN add(<<token.n>>)
    ELSE IF opcode = "at" THEN acc
    ELSE IF opcode = "in"
    THEN IF named_int_eq_str(token.sub[1].opcode, "negate")
         THEN add(<<first_choice(token.sub, self.seed)>>)
         ELSE LET r == sub(<<token.sub[1]>>) IN
              Acc(r.error, acc.result \o r.result, r.group_refs)
    ELSE IF opcode = "any" THEN add(<<42>>)
    ELSE IF opcode = "range" THEN add(<<token.n>>)
    ELSE IF opcode = "branch"
    THEN LET r == sub(token.alts[1]) IN Acc(r.error, acc.result \o r.result, r.group_refs)
    ELSE IF opcode = "subpattern"
    THEN LET r == sub(token.sub) IN
         IF r.error # "" THEN Acc(r.error, acc.result, r.group_refs)
         ELSE Acc("", acc.result \o r.result,
                  [r.group_refs EXCEPT ![token.n] = [set |-> TRUE, text |-> r.result]])
    ELSE IF opcode = "groupref"
    THEN IF acc.group_refs[token.n].set THEN add(acc.group_refs[token.n].text)
         ELSE Acc("KeyError", acc.result, acc.group_refs)
    ELSE IF opcode \in {"min_repeat", "max_repeat"}
    THEN LET n == repeat_count(self.min_len, token.n, token.m) IN
         IF n # 0
         THEN LET r == sub(token.sub) IN
              Acc(r.error, acc.result \o Times(r.result, n), r.group_refs)
         ELSE acc
    ELSE IF opcode = "category"
    THEN IF token.c = "CATEGORY_WORD" THEN add(<<65>>)
         ELSE Acc("NotImplementedError", acc.result, acc.group_refs)
    ELSE IF opcode = "assert_not" THEN acc
    ELSE Acc("NotImplementedError", acc.result, acc.group_refs)

\* _generate passing over a positive lookaround as it does over a negative one.
_generate_hoping(self, tokens, i, acc) ==
    IF acc.error # "" \/ i > Len(tokens) THEN acc
    ELSE IF tokens[i].opcode = "ASSERT" THEN _generate(self, tokens, i + 1, acc)
    ELSE _generate(self, tokens, i + 1, generate_token(self, tokens[i], acc))

_generate(self, tokens, i, acc) ==
    IF acc.error # "" \/ i > Len(tokens) THEN acc
    ELSE _generate(self, tokens, i + 1, generate_token(self, tokens[i], acc))

(***************************************************************************)
(* The patterns inverted, as sre_parse gives them: a token; a literal and  *)
(* then a token; a group and then a token that may refer back to it; an    *)
(* anchor before or after a token.  The token is an atom, or a repetition  *)
(* of an atom or of a group.                                               *)
(***************************************************************************)
\* Largest finite repetition bound in a pattern, and largest minimum length.
MaxCount == 3
MaxMinLen == 3

Atoms ==
    { LITERAL(97), LITERAL(126),
      IN_(<<RANGE(97, 99)>>),
      IN_(<<LITERAL(120), RANGE(97, 99)>>),
      IN_(<<CATEGORY("CATEGORY_WORD")>>),
      IN_(<<CATEGORY("CATEGORY_DIGIT")>>),
      IN_(<<NEGATE, RANGE(97, 99)>>),
      IN_(<<NEGATE, LITERAL(33), RANGE(34, 126)>>),
      ANY,
      BRANCH(<< <<LITERAL(97), LITERAL(98)>>, <<LITERAL(99)>> >>),
      ASSERT_NOT(1, <<LITERAL(97)>>),
      ASSERT_NOT(-1, <<LITERAL(98)>>),
      ASSERT_(1, <<LITERAL(97)>>),
      ASSERT_(-1, <<LITERAL(98)>>) }

Groups ==
    { SUBPATTERN(1, <<LITERAL(98), IN_(<<RANGE(97, 99)>>)>>),
      SUBPATTERN(1, <<MAX_REPEAT(2, 2, <<LITERAL(97)>>)>>),
      SUBPATTERN(1, <<IN_(<<NEGATE, RANGE(97, 99)>>)>>) }

RepeatBounds ==
    {b \in (0..MaxCount) \X ((0..MaxCount) \cup {MAXREPEAT}) : b[1] <= b[2]}

Repeats(of) ==
    {MAX_REPEAT(b[1], b[2], <<a>>) : b \in RepeatBounds, a \in of}
    \cup {MIN_REPEAT(b[1], b[2], <<a>>) : b \in RepeatBounds, a \in of \cap {LITERAL(97), ANY}}

Patterns ==
    LET tokens == Atoms \cup Groups \cup Repeats(Atoms \cup Groups)
        after == Atoms \cup {GROUPREF(1)} \cup Repeats(Atoms \cup {GROUPREF(1)})
    IN  {<<t>> : t \in tokens}
        \cup {<<LITERAL(98), t>> : t \in tokens}
        \cup {<<SUBPATTERN(1, <<LITERAL(99)>>), t>> : t \in after}
        \cup {<<AT_BEGINNING, t>> : t \in Atoms}
        \cup {<<t, AT_END>> : t \in Atoms}

UnregexInit ==
    /\ CodecIdle
    /\ arg \in [tokens : Patterns, min_len : {None} \cup (0..MaxMinLen), seed : {0, 64}]
    /\ ret = Acc("", <<>>, NoGroupRefs)
    /\ at = "parsed"

\* Unregex.generate
generate ==
    /\ at = "parsed"
    /\ ret' = _generate(arg, arg.tokens, 1, Acc("", <<>>, NoGroupRefs))
    /\ at' = IF ret'.error = "" THEN "generated" ELSE "raised"
    /\ UNCHANGED arg
    /\ UNCHANGED codec

UnregexNext == generate

UnregexSpec == UnregexInit /\ [][UnregexNext]_vars


(***************************************************************************)
(* What it is for a string to match a parsed pattern (re.fullmatch).  A    *)
(* matcher state is a position in the string and the text of the groups    *)
(* captured so far; MatchSeq gives the states a token sequence can end in. *)
(***************************************************************************)
WordChars == (48..57) \cup (65..90) \cup (97..122) \cup {95}
CategoryChars(category) ==
    IF category = "CATEGORY_WORD" THEN WordChars
    ELSE IF category = "CATEGORY_DIGIT" THEN 48..57
    ELSE {}

ItemChars(item) ==
    IF item.opcode = "LITERAL" THEN {item.n}
    ELSE IF item.opcode = "RANGE" THEN item.n..item.m
    ELSE IF item.opcode = "CATEGORY" THEN CategoryChars(item.c)
    ELSE {}
ClassListed(items) == UNION {ItemChars(items[j]) : j \in Indices(items)}
ClassAccepts(items, char) ==
    IF items[1].opcode = "NEGATE" THEN char \notin ClassListed(items)
    ELSE char \in ClassListed(items)

MatchState(pos, groups) == [pos |-> pos, groups |-> groups]

RECURSIVE MatchSeq(_, _, _)
RECURSIVE MatchRepeat(_, _, _, _, _)

MatchToken(token, str, state) ==
    LET here == state.pos + 1
        step == {MatchState(here, state.groups)}
    IN
    IF token.opcode = "LITERAL"
    THEN IF here <= Len(str) /\ str[here] = token.n THEN step ELSE {}
    ELSE IF token.opcode = "ANY"
    THEN IF here <= Len(str) /\ str[here] # 10 THEN step ELSE {}
    ELSE IF token.opcode = "IN"
    THEN IF here <= Len(str) /\ ClassAccepts(token.sub, str[here]) THEN step ELSE {}
    ELSE IF token.opcode = "AT"
    THEN IF (token.n = 0 /\ state.pos = 0) \/ (token.n = 1 /\ state.pos = Len(str))
         THEN {state} ELSE {}
    ELSE IF token.opcode = "BRANCH"
    THEN UNION {MatchSeq(token.alts[j], str, {state}) : j \in Indices(token.alts)}
    ELSE IF token.opcode = "SUBPATTERN"
    THEN {MatchState(end.pos,
                     [end.groups EXCEPT ![token.n] =
                         [set |-> TRUE, text |-> SubSeq(str, here, end.pos)]]) :
             end \in MatchSeq(token.sub, str, {state})}
    ELSE IF token.opcode = "GROUPREF"
    THEN LET group == state.groups[token.n] IN
         IF /\ group.set
            /\ state.pos + Len(group.text) <= Len(str)
            /\ SubSeq(str, here, state.pos + Len(group.text)) = group.text
         THEN {MatchState(state.pos + Len(group.text), state.groups)}
         ELSE {}
    ELSE IF token.opcode \in {"MAX_REPEAT", "MIN_REPEAT"}
    THEN MatchRepeat(token, str, {state}, 0, {})
    ELSE IF token.opcode \in {"ASSERT", "ASSERT_NOT"}
    THEN LET found ==
                 IF token.n = 1 THEN MatchSeq(token.sub, str, {state}) # {}
                 ELSE \E from \in 0..state.pos :
                          \E end \in MatchSeq(token.sub, str,
                                               {MatchState(from, state.groups)}) :
                              end.pos = state.pos
         IN  IF found <=> token.opcode = "ASSERT" THEN {state} ELSE {}
    ELSE {}

\* The states after count or more rounds of the repetition, from the states
\* after exactly count rounds; a round that adds no new state ends it.
MatchRepeat(token, str, states, count, seen) ==
    LET ends == IF count >= token.n THEN states ELSE {}
        more == MatchSeq(token.sub, str, states)
    IN  IF count >= token.m \/ states = {} \/ (count >= token.n /\ states \subseteq seen)
        THEN ends
        ELSE ends \cup MatchRepeat(token, str, more, count + 1, seen \cup states)

MatchSeq(tokens, str, states) ==
    IF tokens = <<>> THEN states
    ELSE MatchSeq(Tail(tokens), str,
                  UNION {MatchToken(Head(tokens), str, state) : state \in states})

Matches(tokens, str) ==
    \E end \in MatchSeq(tokens, str, {MatchState(0, NoGroupRefs)}) : end.pos = Len(str)

\* The opcodes the engine inverts; lookaround and the categories other than
\* the word characters are outside what it promises.
RECURSIVE Inverted(_)
Inverted(tokens) ==
    \A j \in Indices(tokens) :
        /\ tokens[j].opcode \notin {"ASSERT", "ASSERT_NOT"}
        /\ tokens[j].opcode = "CATEGORY" => tokens[j].c = "CATEGORY_WORD"
        /\ Inverted(tokens[j].sub)
        /\ \A h \in Indices(tokens[j].alts) : Inverted(tokens[j].alts[h])

Negated(token) == token.opcode = "IN" /\ token.sub[1].opcode = "NEGATE"

(***************************************************************************)
(* C15  The inverted string matches its pattern: for every pattern of      *)
(* inverted opcodes the engine ends with a string that matches it, and for *)
(* a negated character class the character emitted is printable, not       *)
(* whitespace, and neither a listed literal nor inside a listed range,     *)
(* bounds included.                                                        *)
(***************************************************************************)
InvertedStringMatches ==
    (at # "parsed" /\ Inverted(arg.tokens)) =>
        /\ at = "generated"
        /\ Matches(arg.tokens, ret.result)
        /\ (Len(arg.tokens) = 1 /\ Negated(arg.tokens[1])) =>
              /\ Len(ret.result) = 1
              /\ ret.result[1] \in (printable \ whitespace) \ ClassListed(arg.tokens[1].sub)

(***************************************************************************)
(* C16  Repetition count: a repetition token with bounds (min_repeat,      *)
(* max_repeat) under a requested minimum length L emits exactly            *)
(* max(min_repeat, min(L, max_repeat)) copies of what its sub-pattern      *)
(* generates, min_repeat copies when no minimum length is given, and       *)
(* nothing, without generating the sub-pattern, when the count is zero; the *)
(* count lies in [min_repeat, max_repeat]; "[a-c]{3}" with minimum length  *)
(* 3 gives three characters of a, b, c.                                    *)
(***************************************************************************)
Larger(a, b) == IF a > b THEN a ELSE b
Smaller(a, b) == IF a < b THEN a ELSE b
ClaimedCount(min_len, token) ==
    IF min_len = None THEN token.n
    ELSE Larger(token.n, Smaller(min_len, token.m))

\* The pattern is a repetition, alone or after one literal.
RepetitionCase ==
    /\ arg.tokens[Len(arg.tokens)].opcode \in {"MAX_REPEAT", "MIN_REPEAT"}
    /\ Len(arg.tokens) = 1 \/ arg.tokens[1].opcode = "LITERAL"
Repetition == arg.tokens[Len(arg.tokens)]
Before == IF Len(arg.tokens) = 1 THEN <<>> ELSE <<arg.tokens[1].n>>
\* What the repetition's sub-pattern generates on its own.
Once == _generate(arg, Repetition.sub, 1, Acc("", <<>>, NoGroupRefs))

IsCopies(str, one, n) ==
    /\ Len(str) = n * Len(one)
    /\ \A k \in Indices(str) : str[k] = one[((k - 1) % Len(one)) + 1]

RepetitionCount ==
    (at # "parsed" /\ RepetitionCase) =>
        LET n == ClaimedCount(arg.min_len, Repetition) IN
        /\ Repetition.n <= n /\ n <= Repetition.m
        /\ IF n = 0 THEN at = "generated" /\ ret.result = Before
           ELSE IF Once.error # "" THEN at = "raised"
           ELSE /\ at = "generated"
                /\ Len(ret.result) = Len(Before) + n * Len(Once.result)
                /\ SubSeq(ret.result, 1, Len(Before)) = Before
                /\ IsCopies(SubSeq(ret.result, Len(Before) + 1, Len(ret.result)), Once.result, n)
        /\ (arg.tokens = <<MAX_REPEAT(3, 3, <<IN_(<<RANGE(97, 99)>>)>>)>> /\ arg.min_len = 3) =>
              /\ Len(ret.result) = 3
              /\ \A k \in 1..3 : ret.result[k] \in 97..99

RepetitionCountWitness ==
    /\ at = "generated"
    /\ arg.tokens = <<MAX_REPEAT(3, 3, <<IN_(<<RANGE(97, 99)>>)>>)>>
    /\ arg.min_len = 3
    /\ ret.result = <<97, 97, 97>>


(***************************************************************************)
(* C20  internal_deserialize_opt.  It is emitted exactly for the structs   *)
(* with a required field.  Asked for an optional value (a union variant    *)
(* whose payload is a nullable struct) it returns None if and only if no   *)
(* key follows the tag; with a key of any name it builds the struct or     *)
(* fails.  Asked for a value that is not optional (the struct decoded on   *)
(* its own) it never returns None.                                         *)
(***************************************************************************)
HasRequired(S) == Len(all_required_fields(S)) > 0

\* The test decodes the variant of Holder that holds an optional File.
OptionalPayloadCase ==
    /\ typ = "Holder"
    /\ StartsWithTag
    /\ json[1].v.t = "str"
    /\ Tag = "os"

OptionalDeserializer ==
    /\ \A id \in DataTypeIds :
          (DataTypes[id].meta = "Struct" /\ DataTypes[id].enumerated_subtypes = <<>>) =>
              ("internal_deserialize_opt" \in struct_entry_points(DataTypes[id])
                  <=> HasRequired(DataTypes[id]))
    /\ (Decoded /\ IsPlainStruct /\ HasRequired(T)) =>
          /\ x # Ok(RNone)
          /\ x.ok => x.val.t = "struct"
    /\ (Decoded /\ OptionalPayloadCase) =>
          /\ x = Ok(RVariant("os", RNone)) <=> Len(json) = 1
          /\ (Len(json) > 1 /\ x.ok) =>
                /\ x.val.s = "os"
                /\ x.val.o[1].v.t = "struct"

OptionalDeserializerWitness ==
    /\ Decoded
    /\ OptionalPayloadCase
    /\ Len(json) = 1
    /\ x = Ok(RVariant("os", RNone))


(***************************************************************************)
(* Test values (generator/test.stoneg.py).  The test generator is handed   *)
(* the IR with aliases resolved.  A value is held as the JSON object the   *)
(* reference serializer writes for it: fields that were never set are      *)
(* left out, a union is its `.tag` followed by its payload, and the        *)
(* fields of a plain struct payload sit next to the tag.                   *)
(***************************************************************************)
NoVariant == [name |-> "", data_type |-> Void, catch_all |-> FALSE]
TestValue(class, stone_type, variant, no_optional_fields, value) ==
    [class |-> class, stone_type |-> stone_type, variant |-> variant,
     no_optional_fields |-> no_optional_fields, value |-> value]

RECURSIVE make_test_field(_, _)
RECURSIVE TestStruct(_, _)
RECURSIVE TestStructFields(_, _, _)
RECURSIVE TestUnion(_, _, _)
RECURSIVE TestPolymorphicStruct(_, _, _)

\* The entries of the fields from the j-th on that TestStruct sets.
TestStructFields(fields, j, no_optional_fields) ==
    IF j > Len(fields) THEN <<>>
    ELSE LET field == fields[j]
             rest == TestStructFields(fields, j + 1, no_optional_fields)
         IN  IF no_optional_fields
                /\ (field.has_default \/ is_nullable_type(unwrap_aliases(field.data_type)))
             THEN rest
             ELSE <<Entry(field.name, make_test_field(field.data_type, no_optional_fields))>>
                  \o rest

TestStruct(n, no_optional_fields) ==
    LET stone_type == IF has_enumerated_subtypes(Types[n])
                      THEN Types[n].enumerated_subtypes[1].data_type.name
                      ELSE n
    IN  TestValue("TestStruct", stone_type, NoVariant, no_optional_fields,
                  JObj(TestStructFields(Types[stone_type].all_fields, 1, no_optional_fields)))

TestUnion(n, variant, no_optional_fields) ==
    LET typ_ == unwrap(variant.data_type)
        tag == TagEntry(variant.name)
        inner == make_test_field(variant.data_type, no_optional_fields)
    IN  TestValue("TestUnion", n, variant, no_optional_fields,
                  IF typ_.kind = "Void" THEN JObj(<<tag>>)
                  ELSE IF typ_.kind = "Struct" /\ ~has_enumerated_subtypes(Types[typ_.name])
                  THEN JObj(<<tag>> \o inner.o)
                  ELSE JObj(<<tag, Entry(variant.name, inner)>>))

TestPolymorphicStruct(n, variant, no_optional_fields) ==
    TestValue("TestPolymorphicStruct", n, variant, no_optional_fields,
              JObj(<<TagEntry(variant.name)>>
                   \o make_test_field(variant.data_type, no_optional_fields).o))

\* The value of the TestField that make_test_field returns.
make_test_field(stone_type, no_optional_fields) ==
    LET typ_ == unwrap(stone_type)
    IN  IF typ_.kind = "Struct"
        THEN IF has_enumerated_subtypes(Types[typ_.name])
             THEN TestPolymorphicStruct(typ_.name, Types[typ_.name].enumerated_subtypes[1],
                                        no_optional_fields).value
             ELSE TestStruct(typ_.name, no_optional_fields).value
        ELSE IF typ_.kind = "Union"
        THEN \* Pick the first tag.
             TestUnion(typ_.name, Types[typ_.name].all_fields[1], no_optional_fields).value
        ELSE IF typ_.kind = "String" THEN JStr("something")
        ELSE IF typ_.kind = "Int32" THEN JInt(2147483647)
        ELSE IF typ_.kind = "Boolean" THEN JBool(TRUE)
        ELSE JNull

RECURSIVE polymorphic_test_values(_, _)
polymorphic_test_values(n, j) ==
    IF j > Len(Types[n].enumerated_subtypes) THEN <<>>
    ELSE LET variant == Types[n].enumerated_subtypes[j]
         IN  <<TestPolymorphicStruct(n, variant, FALSE)>>
             \o (IF Len(all_optional_fields(Types[variant.data_type.name])) > 0
                 THEN <<TestPolymorphicStruct(n, variant, TRUE)>> ELSE <<>>)
             \o polymorphic_test_values(n, j + 1)

make_test_values(n) ==
    IF Types[n].meta = "Struct"
    THEN IF has_enumerated_subtypes(Types[n])
         THEN polymorphic_test_values(n, 1)
         ELSE <<TestStruct(n, FALSE)>>
              \o (IF Len(all_optional_fields(Types[n])) > 0 THEN <<TestStruct(n, TRUE)>> ELSE <<>>)
    ELSE [j \in Indices(Types[n].all_fields) |-> TestUnion(n, Types[n].all_fields[j], FALSE)]

\* TestValue.is_serializable and its one override, TestUnion.is_serializable.
is_serializable(test_value) ==
    IF test_value.class = "TestStruct" THEN TRUE
    ELSE ~test_value.variant.catch_all

\* json.replace('{".tag": "other"', '{".tag": "dropbox-sdk-rust-bogus-test-variant"')
RECURSIVE replace_other(_)
replace_other(value) ==
    IF value.t # "obj" THEN value
    ELSE JObj([j \in 1..Len(value.o) |->
                  IF j = 1 /\ value.o[j] = TagEntry("other") THEN TagEntry(BogusTag)
                  ELSE Entry(value.o[j].k, replace_other(value.o[j].v))])

(***************************************************************************)
(* One emitted test function and its run (TestBackend._emit_tests, the     *)
(* body of the loop over make_test_values).  arg is the test value, ret    *)
(* what the emitted function holds, pc where its run stands: "passed"      *)
(* once every statement ran, "panicked" once an unwrap() or an assert      *)
(* failed.                                                                 *)
(***************************************************************************)
TestValues == UNION {Range(make_test_values(n)) : n \in TypeNames}

TestInit ==
    /\ arg \in TestValues
    /\ typ = arg.stone_type
    /\ json = <<>>
    /\ x = NoResult
    /\ json2 = NoResult
    /\ x2 = NoResult
    /\ pc = "value"
    /\ ret = [round_trip |-> FALSE, compares |-> FALSE]
    /\ at = "test"

emit_test_fn ==
    /\ pc = "value"
    /\ json' = replace_other(arg.value).o
    /\ ret' = [round_trip |-> is_serializable(arg),
               compares |-> Len(Types[typ].all_fields) > 0]
    /\ pc' = "json"
    /\ UNCHANGED <<typ, arg, at, x, json2, x2>>

\* let x = ::serde_json::from_str::<T>(json).unwrap();
run_from_str ==
    /\ pc = "json"
    /\ x' = from_str(typ, json)
    /\ pc' = IF x'.ok THEN "x" ELSE "panicked"
    /\ UNCHANGED <<typ, arg, at, ret, json, json2, x2>>

\* let json2 = ::serde_json::to_string(&x).unwrap();  or
\* assert!(::serde_json::to_string(&x).is_err());
run_to_string ==
    /\ pc = "x"
    /\ json2' = to_string(typ, x.val)
    /\ pc' = IF ret.round_trip
             THEN IF json2'.ok THEN "json2" ELSE "panicked"
             ELSE IF json2'.ok THEN "panicked" ELSE "passed"
    /\ UNCHANGED <<typ, arg, at, ret, json, x, x2>>

\* let x2 = ::serde_json::from_str::<T>(&json2).unwrap(); assert_eq!(x, x2);
run_from_str_again ==
    /\ pc = "json2"
    /\ x2' = from_str(typ, json2.val.o)
    /\ pc' = IF x2'.ok /\ (ret.compares => x = x2') THEN "passed" ELSE "panicked"
    /\ UNCHANGED <<typ, arg, at, ret, json, x, json2>>

TestNext == emit_test_fn \/ run_from_str \/ run_to_string \/ run_from_str_again

TestSpec == TestInit /\ [][TestNext]_vars

(***************************************************************************)
(* C21  The emitted test re-encodes and re-decodes exactly when the        *)
(* generated serializer succeeds on the value, and otherwise asserts that  *)
(* serializing fails: is_serializable() is true exactly when no catch-all  *)
(* variant occurs anywhere in the value, nested values included.           *)
(***************************************************************************)
RECURSIVE HoldsCatchAll(_)
HoldsCatchAll(value) ==
    /\ value.t = "obj"
    /\ \/ \E j \in 1..Len(value.o) : value.o[j] \in {TagEntry("other"), TagEntry(BogusTag)}
       \/ \E j \in 1..Len(value.o) : HoldsCatchAll(value.o[j].v)

SerializableTestValues ==
    /\ pc # "value" => (ret.round_trip <=> ~HoldsCatchAll(arg.value))
    /\ (pc \in {"json2", "passed", "panicked"} /\ x.ok) => (ret.round_trip <=> json2.ok)


(***************************************************************************)
(* C22  Strict equality: an emitted type derives Eq exactly when no        *)
(* floating-point type is reachable from it through its fields or          *)
(* variants, looking through nullable, list, map key and value, alias,     *)
(* nested struct, union and enumerated-subtype types; Debug, Clone and     *)
(* PartialEq are always derived.                                           *)
(***************************************************************************)
RECURSIVE ReachesFloat(_)
ReachesFloat(dt) ==
    IF dt.kind = "Float64" THEN TRUE
    ELSE IF dt.kind \in {"Nullable", "List", "Alias"} THEN ReachesFloat(dt.data_type)
    ELSE IF dt.kind = "Map"
    THEN ReachesFloat(dt.key_data_type) \/ ReachesFloat(dt.value_data_type)
    ELSE IF dt.kind \in {"Struct", "Union"}
    THEN \/ \E f \in Range(DataTypes[dt.name].all_fields) : ReachesFloat(f.data_type)
         \/ /\ dt.kind = "Struct"
            /\ \E f \in Range(DataTypes[dt.name].enumerated_subtypes) :
                   ReachesFloat(f.data_type)
    ELSE FALSE

EqUnlessFloat ==
    \A j \in Indices(ret.emitted) :
        /\ {"Debug", "Clone", "PartialEq"} \subseteq ret.emitted[j].derive_traits
        /\ "Eq" \in ret.emitted[j].derive_traits
              <=> ~ReachesFloat(UserDefined(ret.emitted[j].typ))


(***************************************************************************)
(* C23  Lookaround.  As claimed: the engine emits nothing for a lookaround *)
(* assertion, positive or negative, ahead or behind, and goes on with the  *)
(* rest of the pattern; it does not fail on one.  That is, it ends as it   *)
(* does on the pattern with its lookarounds taken out.                     *)
(***************************************************************************)
RECURSIVE Without(_, _)
Without(opcodes, tokens) ==
    LET kept == SelectSeq(tokens, LAMBDA t : t.opcode \notin opcodes) IN
    [j \in Indices(kept) |->
        [kept[j] EXCEPT !.sub = IF kept[j].opcode = "IN" THEN @ ELSE Without(opcodes, @)]]

Start == Acc("", <<>>, NoGroupRefs)
Lookaround(tokens) == \E j \in Indices(tokens) : tokens[j].opcode \in {"ASSERT", "ASSERT_NOT"}
EndsOn(tokens) == _generate(arg, tokens, 1, Start)

LookaroundEmitsNothing ==
    (at # "parsed" /\ Lookaround(arg.tokens)) =>
        ret = EndsOn(Without({"ASSERT", "ASSERT_NOT"}, arg.tokens))

(***************************************************************************)
(* C23 as amended: the engine emits nothing for a negative lookaround,     *)
(* ahead or behind, and goes on with the rest of the pattern; on a         *)
(* positive lookaround it fails with NotImplementedError once it reaches   *)
(* it.                                                                     *)
(***************************************************************************)
PositiveReached ==
    \E j \in Indices(arg.tokens) :
        /\ arg.tokens[j].opcode = "ASSERT"
        /\ EndsOn(SubSeq(arg.tokens, 1, j - 1)).error = ""

NegativeLookaroundEmitsNothing ==
    (at # "parsed" /\ Lookaround(arg.tokens)) =>
        IF PositiveReached
        THEN at = "raised" /\ ret.error = "NotImplementedError"
        ELSE ret = EndsOn(Without({"ASSERT_NOT"}, arg.tokens))

NegativeLookaroundWitness ==
    /\ at = "generated"
    /\ arg.tokens = <<LITERAL(98), ASSERT_NOT(-1, <<LITERAL(98)>>)>>
    /\ ret.result = <<98>>


(***************************************************************************)
(* C24  Route names.  route_name appends `_v<version>` to the converted    *)
(* name exactly when version > 1, and does so before it tests for a        *)
(* collision: `do_` is put in front exactly when the name with its version *)
(* is a reserved word, so that two versions of one route never get the     *)
(* same identifier.                                                        *)
(***************************************************************************)
Versioned ==
    IF arg.version > 1 THEN arg.name \o <<VersionWord(arg.version)>> ELSE arg.name

RouteVersioning ==
    at = "route_name" =>
        /\ ret.style = "snake"
        /\ ret.words \in {Versioned, <<"do">> \o Versioned}
        /\ ret.words = <<"do">> \o Versioned <=> Ident("snake", Versioned) \in RUST_RESERVED_WORDS
        /\ arg.version > 1 => ret.words = Versioned
        /\ \A version \in (1..MaxVersion) \ {arg.version} :
              route_name([name |-> arg.name, version |-> version]) # ret

RouteVersioningWitness ==
    /\ at = "route_name"
    /\ arg.name = <<"type">>
    /\ arg.version = 2
    /\ ret = Ident("snake", <<"type", "v2">>)


(***************************************************************************)
(* One run of RustBackend.generate over a whole api: the lookup index and  *)
(* the error-type set, then for each namespace its types file, its two     *)
(* route files and its entry in the module list, then the aggregation      *)
(* files.  The backend's fields are the fields of ret; at is the position  *)
(* of the run.                                                             *)
(***************************************************************************)
\* self._current_type before _emit_namespace first assigns it: __init__ does
\* not create the attribute.
Unset == ""

\* A route as _emit_route reads it.
ApiRoute(name, version, doc_string, error_data_type) ==
    [name |-> name, version |-> version, doc |-> doc_string,
     error_data_type |-> error_data_type]
ApiNamespace(name, doc_string, data_types, routes) ==
    [name |-> name, doc |-> doc_string, data_types |-> data_types, routes |-> routes]

\* Doc reference values that hold a '.', a type name before the field's.
Dotted == {"Account.name"}

ApiNamespaces ==
    { ApiNamespace(<<"files">>, << DocRef("type", "Account") >>, <<"Account", "AB">>,
          << ApiRoute(<<"get">>, 1, << DocRef("field", "name") >>, "AB"),
             ApiRoute(<<"get">>, 2, << DocRef("field", "Account.name") >>, "Void") >>),
      ApiNamespace(<<"async">>, <<>>, <<>>,
          << ApiRoute(<<"poll">>, 2, << DocRef("field", "a") >>, "Void") >>),
      ApiNamespace(<<"auth">>, <<>>, <<"LookupError">>,
          << ApiRoute(<<"move">>, 1, <<>>, "LookupError") >>),
      ApiNamespace(<<"team">>, << DocRef("val", "x") >>, <<"Documented">>, <<>>) }

\* api.namespaces: up to MaxNamespaces namespaces, each once.
MaxNamespaces == 3
ApiValues ==
    UNION {{api \in [1..k -> ApiNamespaces] : \A i, j \in 1..k : api[i] = api[j] => i = j} :
              k \in 1..MaxNamespaces}

\* The HTTP name of a route: the IR name and, past version 1, its version.
name_with_version(fn) ==
    IF fn.version > 1 THEN fn.name \o <<VersionWord(fn.version)>> ELSE fn.name

\* The references of a doc string that _docf resolves against
\* self._current_type: the field references without a type name.
relative_fields(doc_string) ==
    SelectSeq(doc_string, LAMBDA ref : ref.tag = "field" /\ ref.val \notin Dotted)

\* _emit_doc under a current type: the resolutions it makes, or the
\* AttributeError of reading the attribute that was never assigned.
\* The owner of a doc string: a data type, or a namespace or route by name.
TypeDoc(ns_name, id) == [kind |-> "type", namespace |-> ns_name, type |-> id, name |-> <<>>]
NamespaceDoc(ns_name) == [kind |-> "namespace", namespace |-> ns_name, type |-> "", name |-> <<>>]
RouteDoc(ns_name, fn) == [kind |-> "route", namespace |-> ns_name, type |-> "", name |-> fn.name]
Resolution(owner, current) == [owner |-> owner, _current_type |-> current]
resolve_doc(doc_string, owner, current) ==
    LET fields == relative_fields(doc_string) IN
    [error |-> IF fields # <<>> /\ current = Unset
               THEN RuntimeError("AttributeError: _current_type", <<>>, "")
               ELSE NoError,
     resolved |-> IF current = Unset THEN <<>>
                  ELSE [j \in Indices(fields) |-> Resolution(owner, current)]]

data_type_error(id) ==
    IF DataTypes[id].meta = "Union" THEN union_error(id)
    ELSE IF has_enumerated_subtypes(DataTypes[id]) THEN polymorphic_struct_error(id)
    ELSE struct_error(id)

\* _emit_route, as far as the wire path and the doc go: the function's name,
\* the path handed to the request helper, and the doc's resolutions.
RoutePath(ns, route) == [namespace |-> ns, route |-> route]
emit_route(ns, fn, as_async, current_namespace, current) ==
    [fn |-> fn,
     route_name |-> route_name(fn),
     path |-> RoutePath(ns, name_with_version(fn)),
     is_async |-> as_async,
     doc |-> resolve_doc(fn.doc, RouteDoc(current_namespace, fn), current)]

\* `for fn in namespace.routes: self._emit_route(ns, fn)` of _emit_namespace,
\* from the j-th route on; ns is the namespace's name as a Rust module.
RECURSIVE emit_routes(_, _, _, _)
emit_routes(api_namespace, j, as_async, current) ==
    IF j > Len(api_namespace.routes)
    THEN [error |-> NoError, routes |-> <<>>, resolved |-> <<>>]
    ELSE LET ns == namespace_name(api_namespace)
             route == emit_route(ns, api_namespace.routes[j], as_async,
                                 api_namespace.name, current)
         IN  IF route.doc.error.raised
             THEN [error |-> route.doc.error, routes |-> <<>>, resolved |-> <<>>]
             ELSE LET rest == emit_routes(api_namespace, j + 1, as_async, current) IN
                  [error |-> rest.error,
                   routes |-> <<[namespace |-> api_namespace.name, route |-> route]>>
                              \o rest.routes,
                   resolved |-> route.doc.resolved \o rest.resolved]

File(dir, module) == [dir |-> dir, module |-> module]

\* The index of generate: namespace name and type name to type.
all_types(api) ==
    {<<api[n].name, id>> : n \in Indices(api), id \in DataTypeIds} \cap
    UNION {{<<api[n].name, id>> : id \in Range(api[n].data_types)} : n \in Indices(api)}
error_types(api) == UNION {_error_types(api[n]) : n \in Indices(api)}

RunInit ==
    /\ CodecIdle
    /\ arg \in ApiValues
    /\ ret = [_all_types |-> {}, _error_types |-> {}, _modules |-> <<>>,
              _current_namespace |-> <<>>, _current_type |-> Unset,
              files |-> <<>>, routes |-> <<>>, resolved |-> <<>>, mods |-> <<>>,
              error |-> NoError]
    /\ at = [pc |-> "generate", n |-> 1, i |-> 1]

namespace == arg[at.n]

RunRaise(error) ==
    /\ ret' = [ret EXCEPT !.error = error]
    /\ at' = [at EXCEPT !.pc = "raised"]
    /\ UNCHANGED arg
    /\ UNCHANGED codec

\* generate, up to its loop over the namespaces.
generate_index ==
    /\ at.pc = "generate"
    /\ ret' = [ret EXCEPT !._all_types = all_types(arg), !._error_types = error_types(arg)]
    /\ at' = [at EXCEPT !.pc = "namespace"]
    /\ UNCHANGED arg
    /\ UNCHANGED codec

\* _emit_namespace, up to its loop over the data types: the types file is
\* opened and the namespace's doc emitted.
emit_namespace_doc ==
    /\ at.pc = "namespace"
    /\ at.n <= Len(arg)
    /\ LET out == resolve_doc(namespace.doc, NamespaceDoc(namespace.name), ret._current_type) IN
       IF out.error.raised
       THEN /\ ret' = [ret EXCEPT !._current_namespace = namespace.name,
                                  !.error = out.error]
            /\ at' = [at EXCEPT !.pc = "raised"]
            /\ UNCHANGED arg
            /\ UNCHANGED codec
       ELSE /\ ret' = [ret EXCEPT !._current_namespace = namespace.name,
                                  !.files = Append(@, File("types", namespace_name(namespace))),
                                  !.resolved = @ \o out.resolved]
            /\ at' = [at EXCEPT !.pc = "types", !.i = 1]
            /\ UNCHANGED arg
            /\ UNCHANGED codec

\* _emit_namespace, one data type.
emit_data_type ==
    /\ at.pc = "types"
    /\ at.i <= Len(namespace.data_types)
    /\ LET id == namespace.data_types[at.i]
           out == resolve_doc(doc(id), TypeDoc(namespace.name, id), id)
       IN  IF data_type_error(id).raised
           THEN /\ ret' = [ret EXCEPT !._current_type = id, !.error = data_type_error(id)]
                /\ at' = [at EXCEPT !.pc = "raised"]
                /\ UNCHANGED arg
                /\ UNCHANGED codec
           ELSE /\ ret' = [ret EXCEPT !._current_type = id, !.resolved = @ \o out.resolved]
                /\ at' = [at EXCEPT !.i = @ + 1]
                /\ UNCHANGED arg
                /\ UNCHANGED codec

\* _emit_namespace, the sync_routes file.
emit_sync_routes ==
    /\ at.pc = "types"
    /\ at.i > Len(namespace.data_types)
    /\ LET out == emit_routes(namespace, 1, FALSE, ret._current_type)
       IN  IF out.error.raised THEN RunRaise(out.error)
           ELSE /\ ret' = [ret EXCEPT
                             !.files = Append(@, File("sync_routes", namespace_name(namespace))),
                             !.routes = @ \o out.routes,
                             !.resolved = @ \o out.resolved]
                /\ at' = [at EXCEPT !.pc = "async_routes"]
                /\ UNCHANGED arg
                /\ UNCHANGED codec

\* _emit_namespace, the async_routes file and the entry in the module list.
emit_async_routes ==
    /\ at.pc = "async_routes"
    /\ LET out == emit_routes(namespace, 1, TRUE, ret._current_type)
       IN  IF out.error.raised THEN RunRaise(out.error)
           ELSE /\ ret' = [ret EXCEPT
                             !.files = Append(@, File("async_routes", namespace_name(namespace))),
                             !.routes = @ \o out.routes,
                             !.resolved = @ \o out.resolved,
                             !._modules = Append(@, namespace.name)]
                /\ at' = [at EXCEPT !.pc = "namespace", !.n = @ + 1]
                /\ UNCHANGED arg
                /\ UNCHANGED codec

\* The module list written last entry first.
_generate_mod_file_reversed(modules) ==
    [j \in Indices(modules) |-> namespace_name_raw(modules[Len(modules) + 1 - j])]

\* _generate_mod_file: one `pub mod` line for each entry of the module list.
_generate_mod_file(modules) == [j \in Indices(modules) |-> namespace_name_raw(modules[j])]

\* generate, after its loop: the three mod files and the top mod.rs.
generate_mod_files ==
    /\ at.pc = "namespace"
    /\ at.n > Len(arg)
    /\ ret' = [ret EXCEPT
                 !.files = @ \o <<File("async_routes", Ident("snake", <<"mod">>)),
                                  File("sync_routes", Ident("snake", <<"mod">>)),
                                  File("types", Ident("snake", <<"mod">>)),
                                  File("", Ident("snake", <<"mod">>))>>,
                 !.mods = <<_generate_mod_file(ret._modules),
                            _generate_mod_file(ret._modules),
                            _generate_mod_file(ret._modules)>>]
    /\ at' = [at EXCEPT !.pc = "done"]
    /\ UNCHANGED arg
    /\ UNCHANGED codec

RunNext ==
    \/ generate_index
    \/ emit_namespace_doc
    \/ emit_data_type
    \/ emit_sync_routes
    \/ emit_async_routes
    \/ generate_mod_files

RunSpec == RunInit /\ [][RunNext]_vars

(***************************************************************************)
(* C25  The wire path emitted for a route is `<namespace>/<route>` for     *)
(* version 1 and `<namespace>/<route>_v<version>` above it, both parts     *)
(* being the IR names without the mangling that avoids Rust's keywords.    *)
(***************************************************************************)
wire_path(ns_name, fn) ==
    RoutePath(fmt_underscores(ns_name),
              IF fn.version > 1 THEN fn.name \o <<VersionWord(fn.version)>> ELSE fn.name)

WirePathUnmangled ==
    \A j \in Indices(ret.routes) :
        ret.routes[j].route.path = wire_path(ret.routes[j].namespace, ret.routes[j].route.fn)

(***************************************************************************)
(* C26  Read-after-complete-write: the lookup index and the error-type set *)
(* are complete before the first namespace is emitted and never change     *)
(* afterwards; a namespace enters the module list once, after its three    *)
(* files are written, and never leaves it; the aggregation files are       *)
(* written after the last namespace and list every namespace once, in      *)
(* processing order.                                                       *)
(***************************************************************************)
IsPrefix(s, t) == Len(s) <= Len(t) /\ \A j \in Indices(s) : s[j] = t[j]

NamespaceFiles(api_namespace) ==
    {File(dir, namespace_name(api_namespace)) : dir \in {"types", "sync_routes", "async_routes"}}

IndexComplete ==
    (at.pc # "generate" \/ ret.files # <<>>)
        => ret._all_types = all_types(arg) /\ ret._error_types = error_types(arg)

ModulesAfterFiles ==
    /\ Len(ret._modules) <= Len(arg)
    /\ \A j \in Indices(ret._modules) :
          /\ ret._modules[j] = arg[j].name
          /\ NamespaceFiles(arg[j]) \subseteq Range(ret.files)
    /\ at.pc \in {"namespace", "types", "async_routes"} => Len(ret._modules) = at.n - 1

AggregationLast ==
    /\ (\E j \in Indices(ret.files) : ret.files[j].module = Ident("snake", <<"mod">>))
          <=> at.pc = "done"
    /\ at.pc = "done" =>
          /\ Len(ret._modules) = Len(arg)
          /\ \A k \in Indices(ret.mods) :
                ret.mods[k] = [j \in Indices(arg) |-> namespace_name(arg[j])]

NothingRewritten ==
    /\ at.pc # "generate" =>
          ret'._all_types = ret._all_types /\ ret'._error_types = ret._error_types
    /\ IsPrefix(ret._modules, ret'._modules)
    /\ IsPrefix(ret.files, ret'.files)
    /\ ret.mods # <<>> => ret'.mods = ret.mods

ReadAfterCompleteWrite ==
    /\ [](IndexComplete /\ ModulesAfterFiles /\ AggregationLast)
    /\ [][NothingRewritten]_vars

ReadAfterCompleteWriteWitness ==
    /\ at.pc = "done"
    /\ Len(arg) = MaxNamespaces
    /\ Len(ret.mods) = 3
    /\ ret._error_types # {}

(***************************************************************************)
(* C28  Whenever a field reference without a type name is resolved, the    *)
(* current type is the type whose doc is being emitted, or for the doc of  *)
(* a route a type of the route's own namespace: it is never unset and      *)
(* never left over from an earlier namespace.                              *)
(***************************************************************************)
OwnTypes(ns_name) ==
    UNION {Range(arg[n].data_types) : n \in {n \in Indices(arg) : arg[n].name = ns_name}}

CurrentTypeIsOwner ==
    /\ ret.error.message # "AttributeError: _current_type"
    /\ \A j \in Indices(ret.resolved) :
          LET r == ret.resolved[j] IN
          IF r.owner.kind = "type" THEN r._current_type = r.owner.type
          ELSE r._current_type \in OwnTypes(r.owner.namespace)


(***************************************************************************)
(* C27  A generated plain struct has a Default, derived or written out,    *)
(* if and only if it has no required fields, and its default value is the  *)
(* value decoded from the empty object {}: every nullable field none and   *)
(* every defaulted field at its declared default.                          *)
(***************************************************************************)
\* The Rust value a declared default stands for.
declared_default(field) ==
    IF field.data_type.kind = "Nullable" THEN RNone
    ELSE IF field.default.t = "pyint" THEN RInt(field.default.i)
    ELSE IF field.default.t = "pybool" THEN RBool(field.default.i = 1)
    ELSE IF field.default.t = "pystr" THEN RStr(field.default.s)
    ELSE RUnit(field.default.s)

IsPlainStructItem(item) ==
    DataTypes[item.typ].meta = "Struct" /\ ~has_enumerated_subtypes(DataTypes[item.typ])

DefaultIsEmptyObject ==
    \A k \in Indices(ret.emitted) :
        IsPlainStructItem(ret.emitted[k]) =>
            LET struct == DataTypes[ret.emitted[k].typ]
                default == ret.emitted[k].default
            IN  /\ default.kind # "none" <=> Len(all_required_fields(struct)) = 0
                /\ default.kind # "none" =>
                      /\ Ok(default.value) = deserialize_body(struct, <<>>, FALSE, FALSE)
                      /\ \A j \in Indices(struct.all_fields) :
                            default.value.o[j].v = declared_default(struct.all_fields[j])


(***************************************************************************)
(* update_manifest's rewrite of Cargo.toml: the old manifest is read line  *)
(* by line and copied to the new one, the `dbx_` feature lines and the     *)
(* `"dbx_` entries of the default list being dropped and the lists of the  *)
(* modules found in the spec written where the old ones ended.             *)
(***************************************************************************)
\* A line `dbx_<module> = ["dbx_<import>", ...]`, a line `    "dbx_<module>",`,
\* and any other line.
FeatureLine(module, imports) ==
    [kind |-> "feature", module |-> module, imports |-> imports, text |-> ""]
DefaultEntry(module) ==
    [kind |-> "entry", module |-> module, imports |-> <<>>, text |-> ""]
Text(s) == [kind |-> "text", module |-> "", imports |-> <<>>, text |-> s]

\* line.startswith("dbx_"), line.startswith("    \"dbx_"), line == 'default = [\n'
startswith_dbx(line) == line.kind = "feature"
startswith_quoted_dbx(line) == line.kind = "entry"
is_default_line(line) == line = Text("default = [")

\* sorted(): the module names in their order.
ModuleOrder == <<"auth", "common", "files", "team">>
sorted(modules) == SelectSeq(ModuleOrder, LAMBDA m : m \in modules)

\* deps as the first half of update_manifest leaves it: the modules of the spec,
\* each with the modules it imports.
Dep(module, imports) == [module |-> module, imports |-> imports]
DepsValues ==
    { {Dep("common", {}), Dep("files", {"common"})},
      {Dep("auth", {})} }
modules_of(deps) == {d.module : d \in deps}
imports_of(deps, module) == (CHOOSE d \in deps : d.module = module).imports

\* The lines an old manifest is made of.
OldLines ==
    { Text("[features]"), FeatureLine("files", <<>>), FeatureLine("team", <<"files">>),
      Text("default = ["), DefaultEntry("team"), Text("]") }
MaxLines == 5
Manifests == UNION {[1..k -> OldLines] : k \in 0..MaxLines}

\* A line of the new manifest: copied from line `from` of the old one, or
\* written by the rewrite (from = 0).
NewLine(line) == [line |-> line, from |-> 0]

\* new.write(line) with a line of the old manifest, the last line stripped of
\* its text.
write_blank(new, line, i) == Append(new, [line |-> Text(""), from |-> i])

\* new.write(line) with a line of the old manifest.
write(new, line, i) == Append(new, [line |-> line, from |-> i])

\* The two lists the rewrite writes.
features_list(deps) ==
    [j \in Indices(sorted(modules_of(deps))) |->
        NewLine(FeatureLine(sorted(modules_of(deps))[j],
                            sorted(imports_of(deps, sorted(modules_of(deps))[j]))))]
default_list(deps) ==
    [j \in Indices(sorted(modules_of(deps))) |-> NewLine(DefaultEntry(sorted(modules_of(deps))[j]))]

ManifestInit ==
    /\ CodecIdle
    /\ arg \in [old : Manifests, deps : DepsValues]
    /\ ret = [new |-> <<>>, in_features |-> FALSE, in_default |-> FALSE, manifest |-> <<>>]
    /\ at = [pc |-> "lines", i |-> 1]

Reading == at.pc = "lines" /\ at.i <= Len(arg.old)
line == arg.old[at.i]

NextLine ==
    /\ at' = [at EXCEPT !.i = @ + 1]
    /\ UNCHANGED arg
    /\ UNCHANGED codec

\* The three `continue` branches: an entry of the default list, a feature line
\* after another, and the first feature line.
skip_line ==
    /\ Reading
    /\ \/ ret.in_default /\ startswith_quoted_dbx(line)
       \/ ~ret.in_default /\ startswith_dbx(line)
    /\ ret' = [ret EXCEPT !.in_features = TRUE]
    /\ NextLine

\* The end of the default list: the new entries, then the line.
write_default_list ==
    /\ Reading
    /\ ret.in_default /\ ~startswith_quoted_dbx(line)
    /\ ret' = [ret EXCEPT !.new = write(@ \o default_list(arg.deps), line, at.i),
                          !.in_features = FALSE, !.in_default = FALSE]
    /\ NextLine

\* The end of the feature lines: the new feature lines, then the line.
write_features_list ==
    /\ Reading
    /\ ~ret.in_default /\ ret.in_features /\ ~startswith_dbx(line)
    /\ ret' = [ret EXCEPT !.new = write(@ \o features_list(arg.deps), line, at.i),
                          !.in_features = FALSE]
    /\ NextLine

\* Any other line is copied; `default = [` opens the default list.
copy_line ==
    /\ Reading
    /\ ~ret.in_default /\ ~ret.in_features /\ ~startswith_dbx(line)
    /\ ret' = [ret EXCEPT !.new = write(@, line, at.i),
                          !.in_default = is_default_line(line)]
    /\ NextLine

\* os.replace("Cargo.toml.new", "Cargo.toml")
replace_manifest ==
    /\ at.pc = "lines" /\ at.i > Len(arg.old)
    /\ ret' = [ret EXCEPT !.manifest = ret.new]
    /\ at' = [at EXCEPT !.pc = "replaced"]
    /\ UNCHANGED arg
    /\ UNCHANGED codec

ManifestNext ==
    \/ skip_line
    \/ write_default_list
    \/ write_features_list
    \/ copy_line
    \/ replace_manifest

ManifestSpec == ManifestInit /\ [][ManifestNext]_vars

(***************************************************************************)
(* C29  After the rewrite the manifest holds one feature line for each     *)
(* module of the spec and one entry for each module in the default list,   *)
(* in sorted module order, and no feature line of the old manifest.        *)
(* Stated for the old manifests that have one block of feature lines and   *)
(* one closed default list.                                                *)
(***************************************************************************)
FeatureLines(manifest) == SelectSeq(manifest, LAMBDA w : startswith_dbx(w.line))

\* The entries right after the first `default = [` of a manifest.
RECURSIVE EntriesFrom(_, _)
EntriesFrom(manifest, j) ==
    IF j > Len(manifest) \/ ~startswith_quoted_dbx(manifest[j].line) THEN <<>>
    ELSE <<manifest[j]>> \o EntriesFrom(manifest, j + 1)
DefaultList(manifest) ==
    LET opening == {j \in Indices(manifest) : is_default_line(manifest[j].line)} IN
    IF opening = {} THEN <<>>
    ELSE EntriesFrom(manifest, (CHOOSE j \in opening : \A h \in opening : j <= h) + 1)

\* Line j of the old manifest is an entry of a default list: only entries lie
\* between it and a `default = [` before it.
InDefaultList(old, j) ==
    /\ startswith_quoted_dbx(old[j])
    /\ \E k \in 1..(j - 1) :
          /\ is_default_line(old[k])
          /\ \A h \in (k + 1)..j : startswith_quoted_dbx(old[h])

\* The old manifest has one block of feature lines, and one default list,
\* closed by a line `]`, that holds its only entries.
OneOfEach(old) ==
    /\ \E j \in Indices(old) : startswith_dbx(old[j])
    /\ \A j, k \in Indices(old) :
          startswith_dbx(old[j]) /\ startswith_dbx(old[k]) /\ j <= k
              => \A h \in j..k : startswith_dbx(old[h])
    /\ \E j \in Indices(old) :
          /\ is_default_line(old[j])
          /\ \A k \in Indices(old) : is_default_line(old[k]) => k = j
          /\ \A k \in Indices(old) : startswith_quoted_dbx(old[k]) => InDefaultList(old, k)
          /\ \E k \in (j + 1)..Len(old) :
                /\ old[k] = Text("]")
                /\ \A h \in (j + 1)..(k - 1) : startswith_quoted_dbx(old[h])

ManifestRewritten ==
    at.pc = "replaced" /\ OneOfEach(arg.old) =>
        /\ FeatureLines(ret.manifest) = features_list(arg.deps)
        /\ DefaultList(ret.manifest) = default_list(arg.deps)

(***************************************************************************)
(* C30  The rewrite leaves every other line untouched: each line of the    *)
(* old manifest that is neither a `dbx_` feature line nor a `"dbx_` entry  *)
(* of the default list is in the new manifest once, unchanged, and in the  *)
(* same order as before.                                                   *)
(***************************************************************************)
OtherLine(old, j) == ~startswith_dbx(old[j]) /\ ~InDefaultList(old, j)

Copied(new) == SelectSeq(new, LAMBDA w : w.from # 0)

OtherLinesUntouched ==
    LET copied == Copied(IF at.pc = "replaced" THEN ret.manifest ELSE ret.new) IN
    /\ \A j \in 1..(at.i - 1) :
          OtherLine(arg.old, j) => \E k \in Indices(copied) : copied[k].from = j
    /\ \A k \in Indices(copied) : copied[k].line = arg.old[copied[k].from]
    /\ \A k, h \in Indices(copied) : k < h => copied[k].from < copied[h].from

OtherLinesUntouchedWitness ==
    /\ at.pc = "replaced"
    /\ Len(Copied(ret.manifest)) >= 3
    /\ Len(Copied(ret.manifest)) < Len(arg.old)
    /\ Len(ret.manifest) > Len(arg.old)


====
